---- MODULE Spec2Model ----
(***************************************************************************)
(* kubeve: the live event pipeline of the terminal event viewer.           *)
(*                                                                         *)
(* Text is a sequence of one-character strings, so that formatting         *)
(* (fmt.Sprintf with padded columns), splitting (strings.SplitN) and       *)
(* trimming (strings.TrimSpace) are computed as the code computes them.    *)
(***************************************************************************)
EXTENDS Integers, Sequences, FiniteSets, TLC

(***************************************************************************)
(* Bounds of the model.                                                    *)
(***************************************************************************)
\* longest input sequence handed to aggregateEvents in AggSpec
MaxAggLen == 3

(***************************************************************************)
(* Program constants: the column widths of the row format                  *)
(* "%-25s | %-60s | %-10s | %-20s | %-10s | %s".                           *)
(***************************************************************************)
TimeWidth == 25
ResourceWidth == 60
StatusWidth == 10
ReasonWidth == 20
NamespaceWidth == 10
\* strings.SplitN(line, sep, 6)
SplitParts == 6

(***************************************************************************)
(* Text helpers (Go's strings package).                                    *)
(***************************************************************************)
\* the column separator of the row format, the one rune U+2502
Sep == "U+2502"

\* the rune U+2022 of the jump details, three bytes as well
Bullet == "U+2022"

IsSpace(c) == c \in {" ", "\n", "\t"}

SetMin(S) == CHOOSE x \in S : \A y \in S : x <= y
SetMax(S) == CHOOSE x \in S : \A y \in S : x >= y

Spaces(n) == [i \in 1..n |-> " "]

\* fmt's %-Ns: left-justified, padded with spaces to width n, never truncated
PadRight(s, n) == IF Len(s) >= n THEN s ELSE s \o Spaces(n - Len(s))

\* strings.TrimSpace
TrimSpace(s) ==
    LET keep == {i \in 1..Len(s) : ~IsSpace(s[i])}
    IN  IF keep = {} THEN <<>> ELSE SubSeq(s, SetMin(keep), SetMax(keep))

\* strings.SplitN(s, sep, n) for a one-character separator and n >= 1
RECURSIVE SplitN(_, _, _)
SplitN(s, sep, n) ==
    LET at == {i \in 1..Len(s) : s[i] = sep}
    IN  IF n <= 1 \/ at = {}
        THEN <<s>>
        ELSE LET i == SetMin(at)
             IN  <<SubSeq(s, 1, i - 1)>> \o SplitN(SubSeq(s, i + 1, Len(s)), sep, n - 1)

\* strings.Contains(line, sub)
Contains(line, sub) ==
    \E i \in 0..(Len(line) - Len(sub)) : SubSeq(line, i + 1, i + Len(sub)) = sub

\* the letters A..Z and a..z
UpperLetters ==
    <<"A", "B", "C", "D", "E", "F", "G", "H", "I", "J", "K", "L", "M",
      "N", "O", "P", "Q", "R", "S", "T", "U", "V", "W", "X", "Y", "Z">>
LowerLetters ==
    <<"a", "b", "c", "d", "e", "f", "g", "h", "i", "j", "k", "l", "m",
      "n", "o", "p", "q", "r", "s", "t", "u", "v", "w", "x", "y", "z">>

\* byte value of the first byte of a character (Go compares strings bytewise)
Ord(c) ==
    CASE c = "\t" -> 9
      [] c = "\n" -> 10
      [] c = " " -> 32
      [] c = "(" -> 40
      [] c = ")" -> 41
      [] c = "-" -> 45
      [] c = "." -> 46
      [] c = "/" -> 47
      [] c \in {"0", "1", "2", "3", "4", "5", "6", "7", "8", "9"} ->
            48 + (CHOOSE d \in 0..9 : <<"0", "1", "2", "3", "4", "5", "6", "7", "8", "9">>[d + 1] = c)
      [] c = ":" -> 58
      [] c = "<" -> 60
      [] c = ">" -> 62
      [] \E i \in 1..26 : UpperLetters[i] = c ->
            64 + (CHOOSE i \in 1..26 : UpperLetters[i] = c)
      [] c = "_" -> 95
      [] \E i \in 1..26 : LowerLetters[i] = c ->
            96 + (CHOOSE i \in 1..26 : LowerLetters[i] = c)
      [] c = "|" -> 124
      [] c = Sep -> 226

\* Go's s < t on strings
RECURSIVE StrLess(_, _)
StrLess(s, t) ==
    IF t = <<>> THEN FALSE
    ELSE IF s = <<>> THEN TRUE
    ELSE IF s[1] # t[1] THEN Ord(s[1]) < Ord(t[1])
    ELSE StrLess(Tail(s), Tail(t))

\* strings.ToLower on the letters A..Z
LowerChar(c) ==
    IF \E i \in 1..Len(UpperLetters) : UpperLetters[i] = c
    THEN LowerLetters[CHOOSE i \in 1..Len(UpperLetters) : UpperLetters[i] = c]
    ELSE c

ToLower_Keep(s) == s

\* strings.ToLower
ToLower(s) == [i \in 1..Len(s) |-> LowerChar(s[i])]

Digit(d) == <<"0", "1", "2", "3", "4", "5", "6", "7", "8", "9">>[d + 1]

\* strconv.Itoa for n >= 0
RECURSIVE Itoa(_)
Itoa(n) == IF n < 10 THEN <<Digit(n)>> ELSE Itoa(n \div 10) \o <<Digit(n % 10)>>

IsDigits(s) == Len(s) > 0 /\ \A i \in 1..Len(s) : Ord(s[i]) \in 48..57

RECURSIVE Atoi(_)
Atoi(s) == IF s = <<>> THEN 0 ELSE 10 * Atoi(SubSeq(s, 1, Len(s) - 1)) + (Ord(s[Len(s)]) - 48)

(***************************************************************************)
(* Timestamps.  An instant is a natural number of seconds, 0 being Go's    *)
(* zero time.Time.  Its RFC3339 text is written "T<seconds>"; any other    *)
(* text does not parse.                                                    *)
(***************************************************************************)
\* time.Time.Format(time.RFC3339)
FormatTime(t) == <<"T">> \o Itoa(t)

\* time.Parse(time.RFC3339, text), with the code's fallback to the zero time
ParseTime(text) ==
    IF Len(text) >= 2 /\ text[1] = "T" /\ IsDigits(Tail(text))
    THEN Atoi(Tail(text))
    ELSE 0

\* the row format of one event
FormatEventLine(e) ==
    PadRight(FormatTime(e.lastTimestamp), TimeWidth) \o <<" ", Sep, " ">> \o
    PadRight(e.kind \o <<"/">> \o e.name, ResourceWidth) \o <<" ", Sep, " ">> \o
    PadRight(e.type, StatusWidth) \o <<" ", Sep, " ">> \o
    PadRight(e.reason, ReasonWidth) \o <<" ", Sep, " ">> \o
    PadRight(e.namespace, NamespaceWidth) \o <<" ", Sep, " ">> \o
    e.message \o <<"\n">>

(***************************************************************************)
(* Aggregation Engine: aggregateEvents.                                    *)
(***************************************************************************)
\* key := namespace + "|" + resource + "|" + reason
GroupKey(namespace, resource, reason) ==
    namespace \o <<"|">> \o resource \o <<"|">> \o reason

\* group.lastSeen.IsZero() || parsedTime.After(group.lastSeen)
ReplacesLast(group, parsedTime) ==
    group.lastSeen = 0 \/ parsedTime > group.lastSeen

\* a plausible slip: the count is bumped only when the event is the newest
UpdateGroup_CountOnlyNewest(group, eventType, message, parsedTime) ==
    IF ReplacesLast(group, parsedTime)
    THEN [group EXCEPT !.count = @ + 1, !.lastSeen = parsedTime,
                       !.lastType = eventType, !.lastMessage = message]
    ELSE group

\* group.count++ and the conditional update of lastSeen/lastType/lastMessage
UpdateGroup(group, eventType, message, parsedTime) ==
    LET counted == [group EXCEPT !.count = @ + 1]
    IN  IF ReplacesLast(group, parsedTime)
        THEN [counted EXCEPT !.lastSeen = parsedTime,
                             !.lastType = eventType, !.lastMessage = message]
        ELSE counted

\* one iteration of the loop over the input lines; groups is the map, kept
\* as a sequence in order of first insertion
AddLine(groups, line) ==
    LET parts == SplitN(line, Sep, SplitParts)
    IN  IF Len(parts) # SplitParts THEN groups
        ELSE
        LET lastSeenText == TrimSpace(parts[1])
            resource == TrimSpace(parts[2])
            eventType == TrimSpace(parts[3])
            reason == TrimSpace(parts[4])
            namespace == TrimSpace(parts[5])
            message == TrimSpace(parts[6])
            key == GroupKey(namespace, resource, reason)
            at == {j \in 1..Len(groups) : groups[j].key = key}
            fresh == [key |-> key, namespace |-> namespace, resource |-> resource,
                      reason |-> reason, lastMessage |-> <<>>, lastSeen |-> 0,
                      lastType |-> eventType, count |-> 0]
            parsedTime == ParseTime(lastSeenText)
        IN  IF at = {}
            THEN Append(groups, UpdateGroup(fresh, eventType, message, parsedTime))
            ELSE LET j == CHOOSE k \in at : TRUE
                 IN  [groups EXCEPT ![j] = UpdateGroup(groups[j], eventType, message, parsedTime)]

RECURSIVE GroupsOf(_)
GroupsOf(events) ==
    IF events = <<>> THEN <<>>
    ELSE AddLine(GroupsOf(SubSeq(events, 1, Len(events) - 1)), events[Len(events)])

\* a plausible slip: the count compared the wrong way round
GroupLess_CountAscending(a, b) ==
    IF a.count # b.count THEN a.count < b.count
    ELSE IF a.lastSeen # b.lastSeen THEN a.lastSeen > b.lastSeen
    ELSE IF a.namespace # b.namespace THEN StrLess(a.namespace, b.namespace)
    ELSE IF a.resource # b.resource THEN StrLess(a.resource, b.resource)
    ELSE StrLess(a.reason, b.reason)

\* a plausible slip: the chain stops at the resource
GroupLess_NoReason(a, b) ==
    IF a.count # b.count THEN a.count > b.count
    ELSE IF a.lastSeen # b.lastSeen THEN a.lastSeen > b.lastSeen
    ELSE IF a.namespace # b.namespace THEN StrLess(a.namespace, b.namespace)
    ELSE StrLess(a.resource, b.resource)

\* the comparison function handed to sort.Slice
GroupLess(a, b) ==
    IF a.count # b.count THEN a.count > b.count
    ELSE IF a.lastSeen # b.lastSeen THEN a.lastSeen > b.lastSeen
    ELSE IF a.namespace # b.namespace THEN StrLess(a.namespace, b.namespace)
    ELSE IF a.resource # b.resource THEN StrLess(a.resource, b.resource)
    ELSE StrLess(a.reason, b.reason)

\* the orders of the groups
IndexOrders(n) == {p \in [1..n -> 1..n] : \A i, j \in 1..n : i # j => p[i] # p[j]}

Permuted(groups, p) == [i \in 1..Len(groups) |-> groups[p[i]]]

\* what sort.Slice(summary, less) can leave, whatever order the map was read
\* in: the arrangements of the groups no adjacent pair of which is out of order
SortedOrders(groups) ==
    {Permuted(groups, p) : p \in
        {q \in IndexOrders(Len(groups)) :
            \A i \in 1..(Len(groups) - 1) : ~GroupLess(groups[q[i + 1]], groups[q[i]])}}

\* sort.Slice(summary, less)
SortGroups(groups) == CHOOSE sorted \in SortedOrders(groups) : TRUE

\* the output line of one group
FormatGroupLine(group) ==
    PadRight(IF group.lastSeen = 0 THEN <<"-">> ELSE FormatTime(group.lastSeen), TimeWidth)
        \o <<" ", Sep, " ">> \o
    PadRight(group.resource, ResourceWidth) \o <<" ", Sep, " ">> \o
    PadRight(Itoa(group.count), StatusWidth) \o <<" ", Sep, " ">> \o
    PadRight(group.reason, ReasonWidth) \o <<" ", Sep, " ">> \o
    PadRight(group.namespace, NamespaceWidth) \o <<" ", Sep, " ">> \o
    group.lastMessage

\* the sorted summary of aggregateEvents, before it is formatted
AggregateSummary(events) == SortGroups(GroupsOf(events))

aggregateEvents(events) ==
    LET summary == AggregateSummary(events)
    IN  [i \in 1..Len(summary) |-> FormatGroupLine(summary[i])]

(***************************************************************************)
(* View Model helpers: matchesFilter, filterEvents, the table.             *)
(***************************************************************************)
\* a plausible slip: the test made case-insensitive
matchesFilter_IgnoreCase(line, filterText) == Contains(ToLower(line), ToLower(filterText))

matchesFilter(line, filterText) == Contains(line, filterText)

RECURSIVE filterEvents(_, _)
filterEvents(events, filterText) ==
    IF events = <<>> THEN <<>>
    ELSE LET rest == filterEvents(Tail(events), filterText)
         IN  IF matchesFilter(Head(events), filterText)
             THEN <<Head(events)>> \o rest
             ELSE rest

\* weights of the columns (SetExpansion) and the narrowest message column
MessageExpansion == 5
ResourceExpansion == 2
MinMessageWidth == 20
\* the width assumed before the table has been drawn
DefaultMessageWidth == 80
\* " | " between two columns
SeparatorWidth == 3

messageColumnWidth_NoSeparators(tableWidth, opts) ==
    IF tableWidth <= 0 THEN DefaultMessageWidth
    ELSE
    LET one(b) == IF b THEN 1 ELSE 0
        expansionTotal == MessageExpansion + one(opts.Timestamp) + one(opts.Namespace)
                     + one(opts.Status) + one(opts.Action)
                     + (IF opts.Resource THEN ResourceExpansion ELSE 0)
        width == (tableWidth * MessageExpansion) \div expansionTotal
    IN  IF tableWidth < MinMessageWidth THEN MinMessageWidth
        ELSE IF width < MinMessageWidth THEN MinMessageWidth
        ELSE width

messageColumnWidth(tableWidth, opts) ==
    IF tableWidth <= 0 THEN DefaultMessageWidth
    ELSE
    LET one(b) == IF b THEN 1 ELSE 0
        columns == 1 + one(opts.Timestamp) + one(opts.Namespace) + one(opts.Status)
                     + one(opts.Action) + one(opts.Resource)
        expansionTotal == MessageExpansion + one(opts.Timestamp) + one(opts.Namespace)
                     + one(opts.Status) + one(opts.Action)
                     + (IF opts.Resource THEN ResourceExpansion ELSE 0)
        usable == tableWidth - (columns - 1) * SeparatorWidth
        width == (usable * MessageExpansion) \div expansionTotal
    IN  IF usable < MinMessageWidth THEN MinMessageWidth
        ELSE IF width < MinMessageWidth THEN MinMessageWidth
        ELSE width

\* len(s) in bytes: the separator rune takes three bytes, any other character one
ByteLen(s) == Len(s) + 2 * Cardinality({i \in 1..Len(s) : s[i] \in {Sep, Bullet}})

\* strings.Fields: the maximal runs of non-space characters
RECURSIVE Fields(_)
Fields(text) ==
    LET t == TrimSpace(text)
        sp == {i \in 1..Len(t) : IsSpace(t[i])}
    IN  IF t = <<>> THEN <<>>
        ELSE IF sp = {} THEN <<t>>
        ELSE <<SubSeq(t, 1, SetMin(sp) - 1)>> \o Fields(SubSeq(t, SetMin(sp) + 1, Len(t)))

\* the loop of wrapLine over the words: lines finished so far and the line
\* being filled
HardSplit_NoRemainder(word, width) ==
    [lines |-> <<SubSeq(word, 1, width)>>, current |-> <<>>]

RECURSIVE HardSplit(_, _)
HardSplit(word, width) ==
    IF ByteLen(word) > width
    THEN LET r == HardSplit(SubSeq(word, width + 1, Len(word)), width)
         IN  [lines |-> <<SubSeq(word, 1, width)>> \o r.lines, current |-> r.current]
    ELSE [lines |-> <<>>, current |-> word]

RECURSIVE WrapWords(_, _, _, _)
WrapWords(words, width, lines, current) ==
    LET flushed == IF current # <<>> THEN Append(lines, current) ELSE lines
    IN  IF words = <<>> THEN flushed
        ELSE
        LET word == Head(words)
            candidate == current \o <<" ">> \o word
        IN  IF ByteLen(word) > width
            THEN LET hs == HardSplit(word, width)
                 IN  WrapWords(Tail(words), width, flushed \o hs.lines, hs.current)
            ELSE IF current = <<>>
            THEN WrapWords(Tail(words), width, lines, word)
            ELSE IF ByteLen(candidate) <= width
            THEN WrapWords(Tail(words), width, lines, candidate)
            ELSE WrapWords(Tail(words), width, Append(lines, current), word)

wrapLine(text, width) ==
    IF width <= 0 \/ ByteLen(text) <= width THEN <<text>>
    ELSE LET words == Fields(text)
         IN  IF words = <<>> THEN << <<>> >>
             ELSE LET lines == WrapWords(words, width, <<>>, <<>>)
                  IN  IF lines = <<>> THEN << <<>> >> ELSE lines

\* strings.Split(text, "\n")
RECURSIVE SplitLines(_)
SplitLines(text) ==
    LET nl == {i \in 1..Len(text) : text[i] = "\n"}
    IN  IF nl = {} THEN <<text>>
        ELSE <<SubSeq(text, 1, SetMin(nl) - 1)>> \o SplitLines(SubSeq(text, SetMin(nl) + 1, Len(text)))

RECURSIVE WrapParagraphs(_, _)
WrapParagraphs(paragraphs, width) ==
    IF paragraphs = <<>> THEN <<>>
    ELSE LET trimmed == TrimSpace(Head(paragraphs))
             rest == WrapParagraphs(Tail(paragraphs), width)
         IN  IF trimmed = <<>> THEN << <<>> >> \o rest
             ELSE wrapLine(trimmed, width) \o rest

wrapMessage(text, width) ==
    IF width <= 0 THEN <<text>>
    ELSE LET lines == WrapParagraphs(SplitLines(text), width)
         IN  IF lines = <<>> THEN << <<>> >> ELSE lines

(***************************************************************************)
(* The table (render sink): a sequence of rows, the header row first; a    *)
(* row is the sequence of its cells, a cell its colour tag and its text.   *)
(***************************************************************************)
Cell(color, text) == [color |-> color, text |-> text]

GreenActions ==
    { <<"C", "r", "e", "a", "t", "e", "d">>,
      <<"S", "u", "c", "c", "e", "s", "s", "f", "u", "l", "C", "r", "e", "a", "t", "e">>,
      <<"C", "o", "m", "p", "l", "e", "t", "e", "d">> }
BlueActions ==
    { <<"S", "t", "a", "r", "t", "e", "d">>,
      <<"P", "u", "l", "l", "e", "d">>,
      <<"P", "u", "l", "l", "i", "n", "g">> }
RedActions ==
    { <<"K", "i", "l", "l", "i", "n", "g">>,
      <<"B", "a", "c", "k", "O", "f", "f">>,
      <<"U", "n", "h", "e", "a", "l", "t", "h", "y">>,
      <<"F", "a", "i", "l", "e", "d", "T", "o", "R", "e", "t", "r", "i", "e", "v", "e", "I", "m", "a", "g", "e", "P", "u", "l", "l", "S", "e", "c", "r", "e", "t">> }

StatusColor(statusText) ==
    IF statusText = <<"W", "a", "r", "n", "i", "n", "g">> THEN "[yellow]" ELSE "[white]"

ActionColor(actionText) ==
    IF actionText \in GreenActions THEN "[green]"
    ELSE IF actionText \in BlueActions THEN "[blue]"
    ELSE IF actionText \in RedActions THEN "[red]"
    ELSE "[white]"

renderTableHeader(opts) ==
    (IF opts.Timestamp THEN <<IF opts.Aggregate THEN "LAST SEEN" ELSE "TIME">> ELSE <<>>) \o
    (IF opts.Namespace THEN <<"NAMESPACE">> ELSE <<>>) \o
    (IF opts.Status THEN <<IF opts.Aggregate THEN "COUNT" ELSE "STATUS">> ELSE <<>>) \o
    (IF opts.Action THEN <<"ACTION">> ELSE <<>>) \o
    (IF opts.Resource THEN <<"RESOURCE">> ELSE <<>>) \o
    <<IF opts.Aggregate THEN "LAST MESSAGE" ELSE "MESSAGE">>

\* the cells renderRow sets in one row
renderRow(parts, opts) ==
    (IF opts.Timestamp THEN <<Cell("", TrimSpace(parts[1]))>> ELSE <<>>) \o
    (IF opts.Namespace THEN <<Cell("", TrimSpace(parts[5]))>> ELSE <<>>) \o
    (IF opts.Status
        THEN <<Cell(StatusColor(TrimSpace(parts[3])), TrimSpace(parts[3]))>> ELSE <<>>) \o
    (IF opts.Action
        THEN <<Cell(ActionColor(TrimSpace(parts[4])), TrimSpace(parts[4]))>> ELSE <<>>) \o
    (IF opts.Resource THEN <<Cell("", TrimSpace(parts[2]))>> ELSE <<>>) \o
    <<Cell("", TrimSpace(parts[6]))>>

\* the rows one line of renderTableContent's loop adds, as pairs <<cells, eventIdx>>
\* the first row carries the line's columns and the first wrapped line, each
\* continuation row only a message cell
WrappedRows(parts, wrapped, eventIdx, opts) ==
    [k \in 1..Len(wrapped) |->
        <<renderRow(IF k = 1 THEN [parts EXCEPT ![6] = wrapped[1]]
                    ELSE <<<<>>, <<>>, <<>>, <<>>, <<>>, wrapped[k]>>, opts),
          eventIdx>>]

\* if len(wrapped) == 0 { wrapped = []string{""} }
AtLeastOneLine(wrapped) == IF wrapped = <<>> THEN << <<>> >> ELSE wrapped

PartsRows(parts, eventIdx, opts, wrapMessages, msgWidth) ==
    IF Len(parts) # SplitParts THEN <<>>
    ELSE IF ~wrapMessages THEN << <<renderRow(parts, opts), eventIdx>> >>
    ELSE WrappedRows(parts, AtLeastOneLine(wrapMessage(TrimSpace(parts[6]), msgWidth)),
                     eventIdx, opts)

LineRows(line, eventIdx, opts, wrapMessages, msgWidth) ==
    PartsRows(SplitN(line, Sep, SplitParts), eventIdx, opts, wrapMessages, msgWidth)

RECURSIVE ContentRows(_, _, _, _, _)
ContentRows(events, eventIdx, opts, wrapMessages, msgWidth) ==
    IF eventIdx >= Len(events) THEN <<>>
    ELSE LineRows(events[eventIdx + 1], eventIdx, opts, wrapMessages, msgWidth) \o
         ContentRows(events, eventIdx + 1, opts, wrapMessages, msgWidth)

\* renderTableContent: the data rows and the row-to-event table it returns
Unzip(rows) ==
    [rows |-> [i \in 1..Len(rows) |-> rows[i][1]],
     rowToEvent |-> [i \in 1..Len(rows) |-> rows[i][2]]]

renderTableContent(events, filterText, opts, wrapMessages, tableWidth) ==
    Unzip(ContentRows(filterEvents(events, filterText), 0, opts, wrapMessages,
                      messageColumnWidth(tableWidth, opts)))

\* renderTable: table.Clear(), the header, the content
WithHeader(opts, content) ==
    [rows |-> <<renderTableHeader(opts)>> \o content.rows,
     rowToEvent |-> content.rowToEvent]

renderTable(events, filterText, opts, wrapMessages, tableWidth) ==
    WithHeader(opts, renderTableContent(events, filterText, opts, wrapMessages, tableWidth))

(***************************************************************************)
(* Fuzzy Matcher: fuzzyMatchScore.  A result is the pair (score, ok).      *)
(***************************************************************************)
ContainsBase == 1200
MatchBase == 8
BoundaryBonus == 10
StreakBonus == 4

\* the characters after which a match starts a word
WordBreaks == {" ", "/", "-", "_"}

\* strings.Index(t, q) counted in characters, -1 when q does not occur
IndexOf(t, q) ==
    LET at == {i \in 0..(Len(t) - Len(q)) : SubSeq(t, i + 1, i + Len(q)) = q}
    IN  IF at = {} THEN 0 - 1 ELSE SetMin(at)

ClampScore_None(score) == score

\* if score < 1 { score = 1 }
ClampScore(score) == IF score < 1 THEN 1 ELSE score

\* 1200 - idx*2 - (len(t) - len(q)), idx and the lengths counted in bytes
ContainsScore(t, q, at) ==
    ClampScore(ContainsBase - ByteLen(SubSeq(t, 1, at)) * 2 - (ByteLen(t) - ByteLen(q)))

\* the 0-based positions from i on at which the loop does not "continue"
MatchPositions(qr, tr, i, qi) ==
    IF qi >= Len(qr) THEN {} ELSE {j \in i..(Len(tr) - 1) : tr[j + 1] = qr[qi + 1]}

\* what the match at position i adds to the score
MatchGain(tr, i, adjacent, newStreak) ==
    MatchBase
    + (IF i = 0 \/ tr[i] \in WordBreaks THEN BoundaryBonus ELSE 0)
    + (IF adjacent THEN StreakBonus + newStreak ELSE 0)

\* the loop over the runes of the target from the 0-based position from on,
\* one step per matched rune: qi is the query cursor
RECURSIVE ScoreRunes(_, _, _, _, _, _, _)
ScoreRunes(qr, tr, from, qi, score, streak, lastMatch) ==
    LET at == MatchPositions(qr, tr, from, qi)
    IN  IF at = {}
        THEN [qi |-> qi, score |-> score]
        ELSE LET i == SetMin(at)
                 newStreak == IF i = lastMatch + 1 THEN streak + 1 ELSE 0
             IN  ScoreRunes(qr, tr, i + 1, qi + 1,
                            score + MatchGain(tr, i, i = lastMatch + 1, newStreak),
                            newStreak, i)

SubsequenceResult(qr, tr, end) ==
    IF end.qi # Len(qr)
    THEN [score |-> 0, ok |-> FALSE]
    ELSE [score |-> ClampScore(end.score - (Len(tr) - Len(qr))), ok |-> TRUE]

MatchFolded(q, t, at) ==
    IF q = <<>> THEN [score |-> 1, ok |-> TRUE]
    ELSE IF t = <<>> THEN [score |-> 0, ok |-> FALSE]
    ELSE IF at >= 0 THEN [score |-> ContainsScore(t, q, at), ok |-> TRUE]
    ELSE SubsequenceResult(q, t, ScoreRunes(q, t, 0, 0, 0, 0, 0 - 2))

MatchTrimmed(q, t) == MatchFolded(q, t, IndexOf(t, q))

fuzzyMatchScore(query, target) ==
    MatchTrimmed(ToLower(TrimSpace(query)), ToLower(TrimSpace(target)))

(***************************************************************************)
(* Command Palette: buildCommandPaletteResults.  A result points into the  *)
(* commands or into the jumps it was built from: Command and Jump are      *)
(* 1-based positions, 0 for a nil pointer.                                 *)
(***************************************************************************)
CommandBoost == 50
EmptyQueryLimit == 20

PaletteCommand(name, aliases, description, acceptsArg) ==
    [Name |-> name, Aliases |-> aliases, Description |-> description,
     AcceptsArg |-> acceptsArg]

\* the commands openCommandPalette registers, in its order
RegisteredCommands ==
    <<
       PaletteCommand(<<"n", "s">>,
                      <<<<"n", "a", "m", "e", "s", "p", "a", "c", "e">>>>,
                      <<"S", "w", "i", "t", "c", "h", " ", "n", "a", "m",
                        "e", "s", "p", "a", "c", "e", ":", " ", "n", "s",
                        " ", "<", "n", "a", "m", "e", ">", " ", "(", "o",
                        "r", " ", "n", "s", " ", "a", "l", "l", ")", ".">>,
                      TRUE),
       PaletteCommand(<<"a", "l", "l">>,
                      <<<<"n", "s", "-", "a", "l", "l">>>>,
                      <<"S", "w", "i", "t", "c", "h", " ", "t", "o", " ",
                        "a", "l", "l", " ", "n", "a", "m", "e", "s", "p",
                        "a", "c", "e", "s", ".">>,
                      FALSE),
       PaletteCommand(<<"f", "i", "l", "t", "e", "r">>,
                      <<<<"f">>>>,
                      <<"S", "e", "t", " ", "f", "i", "l", "t", "e", "r",
                        " ", "t", "e", "x", "t", ":", " ", "f", "i", "l",
                        "t", "e", "r", " ", "<", "t", "e", "x", "t", ">",
                        ".">>,
                      TRUE),
       PaletteCommand(<<"c", "l", "e", "a", "r">>,
                      <<<<"c", "l", "e", "a", "r", "-", "f", "i", "l", "t", "e", "r">>>>,
                      <<"C", "l", "e", "a", "r", " ", "c", "u", "r", "r",
                        "e", "n", "t", " ", "f", "i", "l", "t", "e", "r",
                        ".">>,
                      FALSE),
       PaletteCommand(<<"j", "u", "m", "p">>,
                      <<<<"j">>>>,
                      <<"F", "u", "z", "z", "y", " ", "j", "u", "m", "p",
                        " ", "t", "o", " ", "e", "v", "e", "n", "t", " ",
                        "r", "o", "w", ":", " ", "j", "u", "m", "p", " ",
                        "<", "q", "u", "e", "r", "y", ">", ".">>,
                      TRUE),
       PaletteCommand(<<"w", "r", "a", "p">>,
                      <<>>,
                      <<"T", "o", "g", "g", "l", "e", " ", "w", "r", "a",
                        "p", "p", "e", "d", " ", "m", "e", "s", "s", "a",
                        "g", "e", "s", ".">>,
                      FALSE),
       PaletteCommand(<<"a", "g", "g", "r", "e", "g", "a", "t", "e">>,
                      <<<<"a", "g", "g">>>>,
                      <<"T", "o", "g", "g", "l", "e", " ", "e", "v", "e",
                        "n", "t", " ", "a", "g", "g", "r", "e", "g", "a",
                        "t", "i", "o", "n", " ", "m", "o", "d", "e", ".">>,
                      FALSE),
       PaletteCommand(<<"a", "u", "t", "o", "s", "c", "r", "o", "l", "l">>,
                      <<<<"f", "o", "l", "l", "o", "w">>>>,
                      <<"T", "o", "g", "g", "l", "e", " ", "a", "u", "t",
                        "o", "s", "c", "r", "o", "l", "l", " ", "m", "o",
                        "d", "e", ".">>,
                      FALSE)
    >>

\* strings.Join(parts, " ")
RECURSIVE JoinSpace(_)
JoinSpace(parts) ==
    IF parts = <<>> THEN <<>>
    ELSE IF Len(parts) = 1 THEN parts[1]
    ELSE parts[1] \o <<" ">> \o JoinSpace(Tail(parts))

MatchText(command) ==
    command.Name \o <<" ">> \o JoinSpace(command.Aliases) \o <<" ">> \o command.Description

JumpSearch(jump) ==
    IF jump.Search = <<>> THEN jump.Label \o <<" ">> \o jump.Detail ELSE jump.Search

CommandScored(q, commands) ==
    [i \in 1..Len(commands) |->
        LET r == fuzzyMatchScore(q, MatchText(commands[i]))
        IN  [Command |-> i, Jump |-> 0, Score |-> r.score + CommandBoost, ok |-> r.ok]]

JumpScored(q, jumps) ==
    [i \in 1..Len(jumps) |->
        LET r == fuzzyMatchScore(q, JumpSearch(jumps[i]))
        IN  [Command |-> 0, Jump |-> i, Score |-> r.score, ok |-> r.ok]]

\* if !ok { continue }
Matched(scored) ==
    LET kept == SelectSeq(scored, LAMBDA r : r.ok)
    IN  [i \in 1..Len(kept) |->
            [Command |-> kept[i].Command, Jump |-> kept[i].Jump, Score |-> kept[i].Score]]

ResultLess_RowsAscending(a, b, commands, jumps) ==
    IF a.Score # b.Score THEN a.Score > b.Score
    ELSE IF a.Command # 0 /\ b.Jump # 0 THEN TRUE
    ELSE IF a.Jump # 0 /\ b.Command # 0 THEN FALSE
    ELSE IF a.Command # 0 /\ b.Command # 0
    THEN StrLess(commands[a.Command].Name, commands[b.Command].Name)
    ELSE IF a.Jump # 0 /\ b.Jump # 0
    THEN jumps[a.Jump].Row < jumps[b.Jump].Row
    ELSE FALSE

\* the less function of sort.Slice
ResultLess(a, b, commands, jumps) ==
    IF a.Score # b.Score THEN a.Score > b.Score
    ELSE IF a.Command # 0 /\ b.Jump # 0 THEN TRUE
    ELSE IF a.Jump # 0 /\ b.Command # 0 THEN FALSE
    ELSE IF a.Command # 0 /\ b.Command # 0
    THEN StrLess(commands[a.Command].Name, commands[b.Command].Name)
    ELSE IF a.Jump # 0 /\ b.Jump # 0
    THEN jumps[a.Jump].Row > jumps[b.Jump].Row
    ELSE FALSE

\* sort.Slice over results of which no two compare equal: command names
\* differ and jump rows differ, so every result has its own place
SortResults(results, commands, jumps) ==
    LET n == Len(results)
        ahead == [i \in 1..n |->
                    Cardinality({j \in 1..n :
                        \/ ResultLess(results[j], results[i], commands, jumps)
                        \/ /\ ~ResultLess(results[i], results[j], commands, jumps)
                           /\ j < i})]
    IN  [k \in 1..n |-> results[CHOOSE i \in 1..n : ahead[i] = k - 1]]

LimitResults_Short(q, results) ==
    IF q = <<>> /\ Len(results) > EmptyQueryLimit - 1
    THEN SubSeq(results, 1, EmptyQueryLimit - 1)
    ELSE results

\* if q == "" { limit := 20; ... return results[:limit] }
LimitResults(q, results) ==
    IF q = <<>> /\ Len(results) > EmptyQueryLimit
    THEN SubSeq(results, 1, EmptyQueryLimit)
    ELSE results

RankedResults(q, commands, jumps) ==
    LimitResults(q, SortResults(Matched(CommandScored(q, commands))
                                \o Matched(JumpScored(q, jumps)), commands, jumps))

buildCommandPaletteResults(query, commands, jumps) ==
    RankedResults(TrimSpace(query), commands, jumps)

(***************************************************************************)
(* CommandPaletteModal: the direct command of the input line, the clamp of *)
(* the selection and what Enter does.  What closing the palette did is a   *)
(* record: kind "closed", "command" or "jump", the command's position in   *)
(* commands, its argument and the row handed to onJump.                    *)
(***************************************************************************)
NoDirect == [Command |-> 0, arg |-> <<>>, ok |-> FALSE]

Answers_NameOnly(command, commandToken) == ToLower(command.Name) = commandToken

\* the two comparisons of the loop over commands
Answers(command, commandToken) ==
    \/ ToLower(command.Name) = commandToken
    \/ \E a \in 1..Len(command.Aliases) : ToLower(command.Aliases[a]) = commandToken

\* the first command in registration order that answers to the token
FirstAnswering(commands, commandToken, arg) ==
    LET hits == {i \in 1..Len(commands) : Answers(commands[i], commandToken)}
    IN  IF hits = {} THEN NoDirect
        ELSE [Command |-> SetMin(hits), arg |-> arg, ok |-> TRUE]

parsePaletteCommandInput(raw, commands) ==
    LET trimmed == TrimSpace(raw)
        parts == Fields(trimmed)
    IN  IF trimmed = <<>> \/ parts = <<>> THEN NoDirect
        ELSE FirstAnswering(commands, ToLower(parts[1]),
                 TrimSpace(SubSeq(trimmed, Len(parts[1]) + 1, Len(trimmed))))

\* updateResults: the selection kept inside the results
ClampSelection(selection, n) ==
    IF n = 0 THEN 0
    ELSE IF selection < 0 THEN 0
    ELSE IF selection >= n THEN n - 1
    ELSE selection

NoOutcome == [kind |-> "none", direct |-> FALSE, Command |-> 0, arg |-> <<>>, Row |-> 0]

ClosedOnly == [kind |-> "closed", direct |-> FALSE, Command |-> 0, arg |-> <<>>, Row |-> 0]

RanCommand(command, arg, direct) ==
    [kind |-> "command", direct |-> direct, Command |-> command, arg |-> arg, Row |-> 0]

Escaped == [kind |-> "escaped", direct |-> FALSE, Command |-> 0, arg |-> <<>>, Row |-> 0]

Jumped(row) == [kind |-> "jump", direct |-> FALSE, Command |-> 0, arg |-> <<>>, Row |-> row]

\* a plausible slip: the raw text is handed over whether or not it has a space
SelectedArg_AnyText(command, raw) ==
    IF command.AcceptsArg /\ raw # <<>> THEN raw ELSE <<>>

\* arg of a selected command: the raw text when it is a single word
SelectedArg(command, raw) ==
    IF command.AcceptsArg /\ raw # <<>> /\ ~(\E i \in 1..Len(raw) : raw[i] = " ")
    THEN raw ELSE <<>>

RunSelected(selected, raw, commands, jumps) ==
    IF selected.Command # 0
    THEN RanCommand(selected.Command, SelectedArg(commands[selected.Command], raw), FALSE)
    ELSE IF selected.Jump # 0 THEN Jumped(jumps[selected.Jump].Row)
    ELSE ClosedOnly

executeSelection(text, commands, jumps, results, selection) ==
    LET raw == TrimSpace(text)
        parsed == parsePaletteCommandInput(raw, commands)
    IN  IF parsed.ok THEN RanCommand(parsed.Command, parsed.arg, TRUE)
        ELSE IF results = <<>> THEN ClosedOnly
        ELSE IF selection < 0 \/ selection >= Len(results) THEN ClosedOnly
        ELSE RunSelected(results[selection + 1], raw, commands, jumps)

(***************************************************************************)
(* StartUI: buildJumpTargets and jumpToBestMatch, computed from            *)
(* rowToVisibleEvent (0-based event indexes, one per data row) and         *)
(* visibleEvents.                                                          *)
(***************************************************************************)
ShortLimit == 120

\* the longest prefix of value that has at most n bytes
TakeBytes(value, n) ==
    SubSeq(value, 1, SetMax({k \in 0..Len(value) : ByteLen(SubSeq(value, 1, k)) <= n}))

\* shortText(value, max): value[:max-3] + "..." for a value of more than max bytes
shortText(value, max) ==
    IF max <= 0 \/ ByteLen(value) <= max THEN value
    ELSE TakeBytes(value, max - 3) \o <<".", ".", ".">>

\* the keys of the map firstRowByEvent
MappedEvents(rowToEvent) == {rowToEvent[r] : r \in 1..Len(rowToEvent)}

\* a plausible slip: every row overwrites the entry, the last one stays
FirstRow_Last(rowToEvent, eventIdx) ==
    SetMax({r \in 1..Len(rowToEvent) : rowToEvent[r] = eventIdx})

\* firstRowByEvent[eventIdx]: the first table row mapped to the event
FirstRow(rowToEvent, eventIdx) ==
    SetMin({r \in 1..Len(rowToEvent) : rowToEvent[r] = eventIdx})

\* eventIndexes before the sort: the mapped events that visibleEvents holds
JumpEvents(rowToEvent, visible) ==
    {eventIdx \in MappedEvents(rowToEvent) : eventIdx >= 0 /\ eventIdx < Len(visible)}

TwoSpaces == <<" ", " ">>

JumpLabel(line, parts) ==
    IF Len(parts) = SplitParts
    THEN shortText(TrimSpace(parts[2]) \o TwoSpaces \o TrimSpace(parts[4])
                   \o TwoSpaces \o TrimSpace(parts[6]), ShortLimit)
    ELSE shortText(TrimSpace(line), ShortLimit)

RowText(row) == <<"r", "o", "w", " ">> \o Itoa(row)

JumpDetail(row, parts) ==
    IF Len(parts) = SplitParts
    THEN shortText(RowText(row) \o <<" ", Bullet, " ">> \o TrimSpace(parts[1])
                   \o <<" ", Bullet, " ", "n", "s", "=">> \o TrimSpace(parts[5]),
                   ShortLimit)
    ELSE RowText(row)

\* CommandPaletteJump{Label, Detail, Search, Row} of one event
JumpTarget(line, row) ==
    [Label |-> JumpLabel(line, SplitN(line, Sep, SplitParts)),
     Detail |-> JumpDetail(row, SplitN(line, Sep, SplitParts)),
     Search |-> TrimSpace(line), Row |-> row]

\* the first rows of the given events, the largest first: sort.Slice by
\* descending first row, no two events having the same first row
RECURSIVE RowsDescending(_)
RowsDescending(rows) ==
    IF rows = {} THEN <<>>
    ELSE <<SetMax(rows)>> \o RowsDescending(rows \ {SetMax(rows)})

FirstRows(rowToEvent, events) == {FirstRow(rowToEvent, eventIdx) : eventIdx \in events}

JumpsOfRows(rowToEvent, visible, rows) ==
    [k \in 1..Len(rows) |-> JumpTarget(visible[rowToEvent[rows[k]] + 1], rows[k])]

buildJumpTargets(rowToEvent, visible) ==
    JumpsOfRows(rowToEvent, visible,
                RowsDescending(FirstRows(rowToEvent, JumpEvents(rowToEvent, visible))))

\* the orders in which "range firstRowByEvent" can visit the events
VisitOrders(rowToEvent) ==
    LET events == MappedEvents(rowToEvent)
        n == Cardinality(events)
    IN  {order \in [1..n -> events] : \A i, j \in 1..n : i # j => order[i] # order[j]}

BetterMatch_Earlier(score, row, bestScore, bestRow) ==
    bestRow = 0 - 1 \/ score > bestScore \/ (score = bestScore /\ row < bestRow)

\* bestRow == -1 || score > bestScore || (score == bestScore && row > bestRow)
BetterMatch(score, row, bestScore, bestRow) ==
    bestRow = 0 - 1 \/ score > bestScore \/ (score = bestScore /\ row > bestRow)

\* the loop over firstRowByEvent, from position k of the visiting order on
RECURSIVE ScanMatches(_, _, _, _, _, _, _)
ScanMatches(query, rowToEvent, visible, order, k, bestRow, bestScore) ==
    IF k > Len(order) THEN bestRow
    ELSE IF order[k] < 0 \/ order[k] >= Len(visible)
    THEN ScanMatches(query, rowToEvent, visible, order, k + 1, bestRow, bestScore)
    ELSE LET r == fuzzyMatchScore(query, visible[order[k] + 1])
             row == FirstRow(rowToEvent, order[k])
         IN  IF r.ok /\ BetterMatch(r.score, row, bestScore, bestRow)
             THEN ScanMatches(query, rowToEvent, visible, order, k + 1, row, r.score)
             ELSE ScanMatches(query, rowToEvent, visible, order, k + 1, bestRow, bestScore)

NoJump == [ok |-> FALSE, row |-> 0]

JumpTo(bestRow) == IF bestRow <= 0 THEN NoJump ELSE [ok |-> TRUE, row |-> bestRow]

\* the row jumpToBestMatch hands to selectTableRow, and what it returns
jumpToBestMatch(raw, rowToEvent, visible, order) ==
    IF TrimSpace(raw) = <<>> THEN NoJump
    ELSE JumpTo(ScanMatches(TrimSpace(raw), rowToEvent, visible, order, 1, 0 - 1, 0))

(***************************************************************************)
(* State: the variables StartUI's closures share, the table, the filter    *)
(* input field, the subscription tasks and the update queue.               *)
(***************************************************************************)
VARIABLES
    filterText,         \* the applied filter
    allEvents,          \* the Event Log: formatted lines
    visibleEvents,      \* the lines (or group lines) currently displayed
    rowToVisibleEvent,  \* data row -> index into visibleEvents (0-based)
    recentNamespaces,
    watchCancel,        \* generation of the task watchCancel cancels, 0 = nil
    watchGeneration,
    namespace,          \* current scope, <<>> = all namespaces
    autoScroll,
    columns,            \* show{Timestamp,Namespace,Status,Action,Resource}Column
    aggregateMode,
    wrapMessages,
    filterVisible,
    filterInput,        \* text of the filter input field
    focus,              \* "table" or "filter"
    running,            \* FALSE once app.Stop() was called
    tableRows,          \* the table: header row, then the data rows
    tableTitle,
    selectedRow,        \* the table's selected row
    tableWidth,         \* inner width of the table on screen
    tasks,              \* generation -> the subscription goroutine started for it
    queue,              \* closures handed to QueueUpdateDraw, oldest first
    delivered,          \* history: generation -> events its stream delivered, in order
    allOrigin,          \* history: generation tag of each entry of allEvents
    inputs,             \* number of inputs from outside taken so far
    lastOp,             \* history: the step taken last
    aggIn,              \* AggSpec: the events whose lines are handed to aggregateEvents
    aggOut,             \* AggSpec: the lines aggregateEvents returned for them
    fltIn,              \* FilterSpec: the rows handed to filterEvents
    fltText,            \* FilterSpec: the filter text handed to it
    fltOut,             \* FilterSpec: the rows it returned
    fzQuery,            \* FuzzySpec: the query handed to fuzzyMatchScore
    fzA,                \* FuzzySpec: a first candidate
    fzB,                \* FuzzySpec: a second candidate
    fzResA,             \* FuzzySpec: the result for the query and fzA
    fzResB,             \* FuzzySpec: the result for the query and fzB
    palQuery,           \* PaletteSpec: the text of the palette's input field
    palCommands,        \* PaletteSpec: the commands handed over
    palJumps,           \* PaletteSpec: the jump candidates handed over
    palResults,         \* PaletteSpec: what buildCommandPaletteResults returned
    cmOpen,             \* CommandPaletteModal: the palette is on screen
    cmText,             \* CommandPaletteModal: the text of its input field
    cmJumps,            \* CommandPaletteModal: the jumps it was opened with
    cmResults,          \* CommandPaletteModal: results
    cmSelection,        \* CommandPaletteModal: selection
    cmDone,             \* history: what closing the palette did
    wrText,             \* WrapSpec: the text handed to wrapLine and wrapMessage
    wrWidth,            \* WrapSpec: the width handed to them
    wrLines,            \* WrapSpec: what wrapLine returned
    wrMessage,          \* WrapSpec: what wrapMessage returned
    mwWidth,            \* WidthSpec: the table width handed to messageColumnWidth
    mwOpts,             \* WidthSpec: the column options handed to it
    mwOut,              \* WidthSpec: what it returned
    details,            \* the DetailsModal calls so far: closed, context, fetch, text
    shown               \* the DetailsModal call whose view is on screen, 0 = none

uiVars == <<filterText, allEvents, visibleEvents, rowToVisibleEvent, recentNamespaces,
            watchCancel, watchGeneration, namespace, autoScroll, columns, aggregateMode,
            wrapMessages, filterVisible, filterInput, focus, running, tableRows,
            tableTitle, selectedRow, tableWidth, tasks, queue, delivered, allOrigin,
            inputs, lastOp>>

aggVars == <<aggIn, aggOut>>

fltVars == <<fltIn, fltText, fltOut>>

\* the variables of the specifications of single functions
fzVars == <<fzQuery, fzA, fzB, fzResA, fzResB>>

palVars == <<palQuery, palCommands, palJumps, palResults>>

cmVars == <<cmOpen, cmText, cmJumps, cmResults, cmSelection, cmDone>>

wrVars == <<wrText, wrWidth, wrLines, wrMessage>>

mwVars == <<mwWidth, mwOpts, mwOut>>

dmVars == <<details, shown>>

\* the variables of the specifications written first, and of the later ones
firstVars == <<aggVars, fltVars, fzVars, palVars>>

laterVars == <<cmVars, wrVars, mwVars, dmVars>>

\* the variables of the function specifications
toolVars == <<firstVars, cmVars, wrVars, mwVars>>

libVars == <<firstVars, laterVars>>

vars == <<uiVars, libVars>>

(***************************************************************************)
(* Bounds and inputs of the pipeline model.                                *)
(***************************************************************************)
\* inputs from outside taken in one run: key presses and palette commands,
\* events and failures of the cluster API
MaxInputs == 3
\* every input may be a scope change, each starting one more task
MaxGeneration == MaxInputs + 1

NamespaceAll == <<>>
NsA == <<"a">>
NsB == <<"b">>
\* the namespaces of the cluster (namespaceList)
NamespaceList == {NsA, NsB}

Normal == <<"N", "o", "r", "m", "a", "l">>
Warning == <<"W", "a", "r", "n", "i", "n", "g">>

Ev(t, kind, name, type, reason, ns, msg) ==
    [lastTimestamp |-> t, kind |-> kind, name |-> name, type |-> type,
     reason |-> reason, namespace |-> ns, message |-> msg]

\* a message of three words, longer than the narrowest message column
LongMessage == [i \in 1..23 |-> IF i \in {10, 20} THEN " " ELSE "a"]

\* the events the cluster can emit: two of one group in namespace a, the
\* second a Warning with a long message, and one in namespace b
ClusterEvents ==
    { Ev(1, <<"P">>, <<"x">>, Normal, <<"C">>, NsA, <<"m", "1">>),
      Ev(2, <<"P">>, <<"x">>, Warning, <<"C">>, NsA, LongMessage),
      Ev(2, <<"P">>, <<"y">>, Warning, <<"K">>, NsB, <<"m", "3">>) }

\* what a stream subscribed to scope ns can deliver
StreamEvents(ns) == {e \in ClusterEvents : ns = NamespaceAll \/ e.namespace = ns}

\* texts the user types into the filter field
FilterTexts == {<<>>, <<"W", "a", "r", "n">>}

\* inner width of the table on a narrow terminal
TerminalWidth == 40

ColumnOptions(cols, agg) ==
    [Timestamp |-> cols.Timestamp, Namespace |-> cols.Namespace,
     Status |-> cols.Status, Action |-> cols.Action,
     Resource |-> cols.Resource, Aggregate |-> agg]

currentColumns == ColumnOptions(columns, aggregateMode)

\* the title updateTableTitle composes, with no banner
Title(ft, as, agg, wrap) ==
    [filter |-> ft, autoScroll |-> as, aggregate |-> agg, wrap |-> wrap, banner |-> <<>>]

\* refreshTable: the view recomputed from the log
ViewOf(visible, rendered) ==
    [visibleEvents |-> visible, rowToVisibleEvent |-> rendered.rowToEvent,
     tableRows |-> rendered.rows]

RenderVisible(visible, opts, wrap, width) ==
    ViewOf(visible, renderTable(visible, <<>>, opts, wrap, width))

\* a plausible slip: the view is recomputed from the lines displayed, not
\* from the log
refreshTable_FromView(events, agg, ft, opts, wrap, width) ==
    RenderVisible(filterEvents(IF agg THEN aggregateEvents(visibleEvents)
                               ELSE visibleEvents, ft),
                  opts, wrap, width)

refreshTable(events, agg, ft, opts, wrap, width) ==
    RenderVisible(filterEvents(IF agg THEN aggregateEvents(events) ELSE events, ft),
                  opts, wrap, width)

\* the results of refreshTable stored in the controller and the table
ShowView(view) ==
    /\ visibleEvents' = view.visibleEvents
    /\ rowToVisibleEvent' = view.rowToVisibleEvent
    /\ tableRows' = view.tableRows

NoTask == [ns |-> NamespaceAll, pc |-> "none", cancelled |-> FALSE]

(***************************************************************************)
(* Watch Session Controller: updateNamespace (setScope).                   *)
(***************************************************************************)
\* watchGeneration++
NextGeneration(g) == g + 1

\* the recent-namespaces list after newNS was selected
MaxRecent == 3

RemoveFirst(list, x) ==
    LET at == {i \in 1..Len(list) : list[i] = x}
    IN  IF at = {} THEN list
        ELSE SubSeq(list, 1, SetMin(at) - 1) \o SubSeq(list, SetMin(at) + 1, Len(list))

\* a plausible slip: the namespace is put in front without removing it
\* from the place it had
UpdateRecent_NoDedup(recent, newNS) ==
    IF newNS = NamespaceAll THEN recent
    ELSE LET added == <<newNS>> \o recent
         IN  IF Len(added) > MaxRecent THEN SubSeq(added, 1, MaxRecent) ELSE added

UpdateRecent(recent, newNS) ==
    IF newNS = NamespaceAll THEN recent
    ELSE LET added == <<newNS>> \o RemoveFirst(recent, newNS)
         IN  IF Len(added) > MaxRecent THEN SubSeq(added, 1, MaxRecent) ELSE added

\* a plausible slip: the previous subscription is left running
CancelWatch_Skip(ts) == ts

\* watchCancel(): the context of the task it belongs to is cancelled
CancelWatch(ts) ==
    IF watchCancel # 0 THEN [ts EXCEPT ![watchCancel].cancelled = TRUE] ELSE ts

\* the goroutine updateNamespace starts: go func(ns, generation)
StartTask(ts, ns, generation) ==
    [ts EXCEPT ![generation] = [ns |-> ns, pc |-> "setup", cancelled |-> FALSE]]

\* the log as updateNamespace leaves it: allEvents = nil
ClearedLog(events) == <<>>

\* a plausible slip: updateNamespace leaves the namespace column as it is
ShowsNamespace_Kept(ns) == columns.Namespace

\* showNamespaceColumn = namespace == metav1.NamespaceAll
ShowsNamespace(ns) == ns = NamespaceAll

updateNamespace(newNS) ==
    LET generation == NextGeneration(watchGeneration)
        cols == [columns EXCEPT !.Namespace = ShowsNamespace(newNS)]
    IN  /\ watchGeneration' = generation
        /\ namespace' = newNS
        /\ recentNamespaces' = UpdateRecent(recentNamespaces, newNS)
        /\ allEvents' = ClearedLog(allEvents)
        /\ allOrigin' = <<>>
        /\ columns' = cols
        /\ ShowView(refreshTable(allEvents', aggregateMode, filterText,
                                 ColumnOptions(cols, aggregateMode),
                                 wrapMessages, tableWidth))
        /\ watchCancel' = generation
        /\ tasks' = StartTask(CancelWatch(tasks), newNS, generation)
        /\ UNCHANGED <<filterText, autoScroll, aggregateMode, wrapMessages, filterVisible,
                       filterInput, focus, running, tableTitle, selectedRow, tableWidth,
                       queue, delivered>>

\* a key reaches handleInput: the application runs and the table has the focus
OnTable == running /\ focus = "table"

CanPress == OnTable /\ inputs < MaxInputs

\* Ctrl-N and a choice in the namespace selector
SelectNamespace(ns) ==
    /\ CanPress
    /\ updateNamespace(ns)
    /\ inputs' = inputs + 1
    /\ lastOp' = [op |-> "updateNamespace", generation |-> watchGeneration']
    /\ UNCHANGED libVars

\* the keys 0..3: all namespaces, or one of the recent namespaces
RecentKey(d) ==
    /\ CanPress
    /\ d = 0 \/ d <= Len(recentNamespaces)
    /\ updateNamespace(IF d = 0 THEN NamespaceAll ELSE recentNamespaces[d])
    /\ inputs' = inputs + 1
    /\ lastOp' = [op |-> "updateNamespace", generation |-> watchGeneration']
    /\ UNCHANGED libVars

(***************************************************************************)
(* The subscription goroutine: kube.WatchEvents and what follows it.       *)
(***************************************************************************)
Enqueue(q, closure) == Append(q, closure)

\* a plausible slip: the closure is tagged with the generation current at
\* the time of the hand-off, read by the goroutine
EventClosure_ReadsCurrent(generation, event) ==
    [kind |-> "event", generation |-> watchGeneration, event |-> event]

\* the closure eventHandler builds: it holds the goroutine's own generation
\* parameter and the event
EventClosure(generation, event) ==
    [kind |-> "event", generation |-> generation, event |-> event]

\* Kinit, List and Watch all succeed: the goroutine enters the select loop
TaskSetup(g) ==
    /\ tasks[g].pc = "setup"
    /\ tasks' = [tasks EXCEPT ![g].pc = "loop"]
    /\ lastOp' = [op |-> "task", generation |-> 0]
    /\ UNCHANGED <<filterText, allEvents, visibleEvents, rowToVisibleEvent,
                   recentNamespaces, watchCancel, watchGeneration, namespace, autoScroll,
                   columns, aggregateMode, wrapMessages, filterVisible, filterInput, focus,
                   running, tableRows, tableTitle, selectedRow, tableWidth, queue,
                   delivered, allOrigin, inputs, libVars>>

\* WatchEvents returns nil when List or Watch failed under a cancelled context
\* a plausible slip: a List or Watch error is taken for a cancellation
\* without asking the context
ReturnsNil_Unasked(stage, cancelled) == stage # "init"

ReturnsNil(stage, cancelled) == stage # "init" /\ cancelled

\* Kinit, List or Watch (stage) returns an error: WatchEvents returns it, or
\* nil, and the goroutine queues the error closure for a non-nil error
TaskFail(g, stage) ==
    /\ tasks[g].pc = "setup"
    /\ inputs < MaxInputs
    /\ queue' = IF ReturnsNil(stage, tasks[g].cancelled) THEN queue
                ELSE Enqueue(queue, [kind |-> "error", generation |-> g, err |-> stage])
    /\ tasks' = [tasks EXCEPT ![g].pc = "done"]
    /\ inputs' = inputs + 1
    /\ lastOp' = [op |-> "task", generation |-> 0]
    /\ UNCHANGED <<filterText, allEvents, visibleEvents, rowToVisibleEvent,
                   recentNamespaces, watchCancel, watchGeneration, namespace, autoScroll,
                   columns, aggregateMode, wrapMessages, filterVisible, filterInput, focus,
                   running, tableRows, tableTitle, selectedRow, tableWidth,
                   delivered, allOrigin, libVars>>

\* the stream delivers an event: eventHandler queues the ingest closure
TaskDeliver(g, e) ==
    /\ tasks[g].pc = "loop"
    /\ inputs < MaxInputs
    /\ e \in StreamEvents(tasks[g].ns)
    /\ queue' = Enqueue(queue, EventClosure(g, e))
    /\ delivered' = [delivered EXCEPT ![g] = Append(@, e)]
    /\ inputs' = inputs + 1
    /\ lastOp' = [op |-> "task", generation |-> 0]
    /\ UNCHANGED <<filterText, allEvents, visibleEvents, rowToVisibleEvent,
                   recentNamespaces, watchCancel, watchGeneration, namespace, autoScroll,
                   columns, aggregateMode, wrapMessages, filterVisible, filterInput, focus,
                   running, tableRows, tableTitle, selectedRow, tableWidth, tasks,
                   allOrigin, libVars>>

\* the select sees ctx.Done(), or the result channel closed: return nil
TaskReturn(g) ==
    /\ tasks[g].pc = "loop"
    /\ tasks' = [tasks EXCEPT ![g].pc = "done"]
    /\ lastOp' = [op |-> "task", generation |-> 0]
    /\ UNCHANGED <<filterText, allEvents, visibleEvents, rowToVisibleEvent,
                   recentNamespaces, watchCancel, watchGeneration, namespace, autoScroll,
                   columns, aggregateMode, wrapMessages, filterVisible, filterInput, focus,
                   running, tableRows, tableTitle, selectedRow, tableWidth, queue,
                   delivered, allOrigin, inputs, libVars>>

\* what WatchEvents returns, nil or the error
NoError == "nil"

\* a plausible slip: the closed result channel is reported as an error
ClosedChannelResult_Error == "watch closed"

\* case evt, ok := <-ch: if !ok { return nil }
ClosedChannelResult == NoError

\* the goroutine after WatchEvents returned err: if err != nil, the error
\* closure is queued
AfterWatchEvents(q, generation, err) ==
    IF err # NoError
    THEN Enqueue(q, [kind |-> "error", generation |-> generation, err |-> err])
    ELSE q

\* the result channel of a stream that was not cancelled is closed
StreamEnd(g) ==
    /\ tasks[g].pc = "loop"
    /\ ~tasks[g].cancelled
    /\ inputs < MaxInputs
    /\ tasks' = [tasks EXCEPT ![g].pc = "done"]
    /\ queue' = AfterWatchEvents(queue, g, ClosedChannelResult)
    /\ inputs' = inputs + 1
    /\ lastOp' = [op |-> "task", generation |-> 0, ended |-> g]
    /\ UNCHANGED <<filterText, allEvents, visibleEvents, rowToVisibleEvent,
                   recentNamespaces, watchCancel, watchGeneration, namespace, autoScroll,
                   columns, aggregateMode, wrapMessages, filterVisible, filterInput, focus,
                   running, tableRows, tableTitle, selectedRow, tableWidth,
                   delivered, allOrigin, libVars>>

\* an object of the stream that is not a *corev1.Event
NotAnEvent == [kind |-> <<"S", "t", "a", "t", "u", "s">>]

\* the stream delivers an object that is not a *corev1.Event: the type
\* assertion fails, eventHandler is not called and the loop goes on
TaskSkipObject(g) ==
    /\ tasks[g].pc = "loop"
    /\ inputs < MaxInputs
    /\ delivered' = [delivered EXCEPT ![g] = Append(@, NotAnEvent)]
    /\ inputs' = inputs + 1
    /\ lastOp' = [op |-> "task", generation |-> 0, skipped |-> g]
    /\ UNCHANGED <<filterText, allEvents, visibleEvents, rowToVisibleEvent,
                   recentNamespaces, watchCancel, watchGeneration, namespace, autoScroll,
                   columns, aggregateMode, wrapMessages, filterVisible, filterInput, focus,
                   running, tableRows, tableTitle, selectedRow, tableWidth, tasks, queue,
                   allOrigin, libVars>>

(***************************************************************************)
(* The select loop of WatchEvents with the hand-off to the update loop in  *)
(* two steps: the loop receives an event and calls eventHandler, and       *)
(* QueueUpdateDraw returns once the queue of the update loop has room.     *)
(* Until then the goroutine is inside eventHandler and not at the select.  *)
(***************************************************************************)
\* the closures the queue of the update loop holds before a sender waits
QueueCapacity == 1

QueueHasRoom(q) == Len(q) < QueueCapacity

\* case evt, ok := <-ch: the stream delivers an event
TaskReceive(g, e) ==
    /\ tasks[g].pc = "loop"
    /\ inputs < MaxInputs
    /\ e \in StreamEvents(tasks[g].ns)
    /\ tasks' = [tasks EXCEPT ![g].pc = "handler"]
    /\ delivered' = [delivered EXCEPT ![g] = Append(@, e)]
    /\ inputs' = inputs + 1
    /\ lastOp' = [op |-> "task", generation |-> 0]
    /\ UNCHANGED <<filterText, allEvents, visibleEvents, rowToVisibleEvent,
                   recentNamespaces, watchCancel, watchGeneration, namespace, autoScroll,
                   columns, aggregateMode, wrapMessages, filterVisible, filterInput, focus,
                   running, tableRows, tableTitle, selectedRow, tableWidth, queue,
                   allOrigin, libVars>>

\* eventHandler(event): app.QueueUpdateDraw takes the closure and returns
TaskHandOff(g) ==
    /\ tasks[g].pc = "handler"
    /\ QueueHasRoom(queue)
    /\ queue' = Enqueue(queue, EventClosure(g, delivered[g][Len(delivered[g])]))
    /\ tasks' = [tasks EXCEPT ![g].pc = "loop"]
    /\ lastOp' = [op |-> "task", generation |-> 0]
    /\ UNCHANGED <<filterText, allEvents, visibleEvents, rowToVisibleEvent,
                   recentNamespaces, watchCancel, watchGeneration, namespace, autoScroll,
                   columns, aggregateMode, wrapMessages, filterVisible, filterInput, focus,
                   running, tableRows, tableTitle, selectedRow, tableWidth, delivered,
                   allOrigin, inputs, libVars>>

\* case <-ctx.Done(): the select of a cancelled task returns
CancelledReturn(g) == tasks[g].cancelled /\ TaskReturn(g)

\* Kinit, List and Watch of a cancelled task come back
CancelledSetup(g) == tasks[g].cancelled /\ TaskSetup(g)

(***************************************************************************)
(* The update loop: the closures queued by the goroutines.                 *)
(***************************************************************************)
\* a plausible slip: the ingest closure without its generation check
IsStaleEvent_Never(generation) == FALSE

\* the ingest closure's check: if generation != watchGeneration { return }
IsStaleEvent(generation) == generation # watchGeneration

\* a plausible slip: the error closure without its generation check
IsStaleError_Never(generation) == FALSE

\* the error closure's check: if generation != watchGeneration { return }
IsStaleError(generation) == generation # watchGeneration

\* a plausible slip: the new line is put in front of the log
LogAppend_Front(log, msg) == <<msg>> \o log

\* allEvents = append(allEvents, msg)
LogAppend(log, msg) == Append(log, msg)

\* a plausible slip: aggregate mode takes the incremental path
NeedsRefresh_WrapOnly(agg, wrap) == wrap

\* if aggregateMode || wrapMessages { refreshTable() ... }
NeedsRefresh(agg, wrap) == agg \/ wrap

\* the scope test of the incremental path
InScope(e) == namespace = NamespaceAll \/ e.namespace = namespace

\* a plausible slip: the incremental path forgets the filter
AppendsRow_NoFilter(msg, e) == InScope(e)

\* the incremental path shows the line if it passes the filter and the scope
AppendsRow(msg, e) == matchesFilter(msg, filterText) /\ InScope(e)

\* a plausible slip: the index is taken before it is decremented
AppendedIndex_OffByOne(visible) == Len(visible)

\* the entry appended to rowToVisibleEvent: len(visibleEvents)-1
AppendedIndex(visible) == Len(visible) - 1

\* a plausible slip: the ingestion selects the last row in aggregate mode too
SelectAfterRefresh_Last(rows, agg) ==
    IF Len(rows) > 1 THEN Len(rows) - 1 ELSE selectedRow

\* the row selected after an ingestion that refreshed the table
SelectAfterRefresh(rows, agg) ==
    IF agg /\ Len(rows) > 1 THEN 1
    ELSE IF Len(rows) > 1 THEN Len(rows) - 1
    ELSE selectedRow

\* the ingest closure of a current-generation event while autoScroll is on
AppendRow(parts) ==
    IF Len(parts) = SplitParts
    THEN /\ tableRows' = Append(tableRows, renderRow(parts, currentColumns))
         /\ rowToVisibleEvent' = Append(rowToVisibleEvent, AppendedIndex(visibleEvents'))
         /\ selectedRow' = Len(tableRows') - 1
    ELSE UNCHANGED <<tableRows, rowToVisibleEvent, selectedRow>>

IngestLine(msg, e, generation) ==
    /\ allEvents' = LogAppend(allEvents, msg)
    /\ allOrigin' = Append(allOrigin, generation)
    /\ IF NeedsRefresh(aggregateMode, wrapMessages)
       THEN /\ ShowView(refreshTable(allEvents', aggregateMode, filterText,
                                     currentColumns, wrapMessages, tableWidth))
            /\ selectedRow' = SelectAfterRefresh(tableRows', aggregateMode)
       ELSE IF AppendsRow(msg, e)
       THEN /\ visibleEvents' = Append(visibleEvents, msg)
            /\ AppendRow(SplitN(msg, Sep, SplitParts))
       ELSE UNCHANGED <<visibleEvents, rowToVisibleEvent, tableRows, selectedRow>>

Ingest(e, generation) == IngestLine(FormatEventLine(e), e, generation)

\* a plausible slip: the event is kept in the log and only not shown
SkipEvent_KeepsInLog(e, generation) ==
    /\ allEvents' = LogAppend(allEvents, FormatEventLine(e))
    /\ allOrigin' = Append(allOrigin, generation)
    /\ UNCHANGED <<visibleEvents, rowToVisibleEvent, tableRows, selectedRow>>

\* the ingest closure while autoScroll is off: the body of if autoScroll is
\* skipped and the closure returns
SkipEvent(e, generation) ==
    UNCHANGED <<allEvents, allOrigin, visibleEvents, rowToVisibleEvent, tableRows,
                selectedRow>>

\* the update loop runs the oldest queued ingest closure
ApplyEvent ==
    /\ running
    /\ queue # <<>>
    /\ Head(queue).kind = "event"
    /\ queue' = Tail(queue)
    /\ IF IsStaleEvent(Head(queue).generation)
       THEN /\ lastOp' = [op |-> "staleEvent", generation |-> Head(queue).generation]
            /\ UNCHANGED <<allEvents, allOrigin, visibleEvents, rowToVisibleEvent,
                           tableRows, selectedRow>>
       ELSE IF autoScroll
       THEN /\ lastOp' = [op |-> "ingest", generation |-> Head(queue).generation]
            /\ Ingest(Head(queue).event, Head(queue).generation)
       ELSE /\ lastOp' = [op |-> "dropEvent", generation |-> Head(queue).generation,
                           event |-> Head(queue).event]
            /\ SkipEvent(Head(queue).event, Head(queue).generation)
    /\ UNCHANGED <<filterText, recentNamespaces, watchCancel, watchGeneration, namespace,
                   autoScroll, columns, aggregateMode, wrapMessages, filterVisible,
                   filterInput, focus, running, tableTitle, tableWidth, tasks,
                   delivered, inputs, libVars>>

\* the update loop runs the oldest queued error closure
ApplyWatchError ==
    /\ running
    /\ queue # <<>>
    /\ Head(queue).kind = "error"
    /\ queue' = Tail(queue)
    /\ IF IsStaleError(Head(queue).generation)
       THEN /\ lastOp' = [op |-> "staleError", generation |-> Head(queue).generation]
            /\ UNCHANGED tableTitle
       ELSE /\ lastOp' = [op |-> "watchError", generation |-> Head(queue).generation]
            /\ tableTitle' = [Title(filterText, autoScroll, aggregateMode, wrapMessages)
                                EXCEPT !.banner = <<"watch error", Head(queue).err>>]
    /\ UNCHANGED <<filterText, allEvents, visibleEvents, rowToVisibleEvent,
                   recentNamespaces, watchCancel, watchGeneration, namespace, autoScroll,
                   columns, aggregateMode, wrapMessages, filterVisible, filterInput, focus,
                   running, tableRows, selectedRow, tableWidth, tasks, delivered,
                   allOrigin, inputs, libVars>>

(***************************************************************************)
(* Key presses handled by handleInput, the filter field and the palette's  *)
(* filter command.                                                         *)
(***************************************************************************)
\* refreshTable() called with the given settings on the unchanged log
Refreshed(agg, ft, cols, wrap) ==
    ShowView(refreshTable(allEvents, agg, ft, ColumnOptions(cols, agg), wrap, tableWidth))

\* selectTableRow(row)
selectTableRow(row, rowCount) ==
    IF row <= 0 \/ row >= rowCount THEN selectedRow ELSE row

\* the filter text toggleAutoScroll leaves applied: filterText = filter.GetText()
FilterAfterToggle(applied, typed) == typed

\* Ctrl-S: toggleAutoScroll
ToggleAutoScroll ==
    /\ CanPress
    /\ autoScroll' = ~autoScroll
    /\ filterText' = FilterAfterToggle(filterText, filterInput)
    /\ tableTitle' = Title(filterText', autoScroll', aggregateMode, wrapMessages)
    /\ inputs' = inputs + 1
    /\ lastOp' = [op |-> "toggleAutoScroll", generation |-> watchGeneration]
    /\ UNCHANGED <<allEvents, visibleEvents, rowToVisibleEvent, recentNamespaces,
                   watchCancel, watchGeneration, namespace, columns, aggregateMode,
                   wrapMessages, filterVisible, filterInput, focus, running, tableRows,
                   selectedRow, tableWidth, tasks, queue, delivered, allOrigin, libVars>>

\* T, A, S, R: toggle one column and refresh
ToggleColumn(c) ==
    /\ CanPress
    /\ columns' = [columns EXCEPT ![c] = ~@]
    /\ Refreshed(aggregateMode, filterText, columns', wrapMessages)
    /\ inputs' = inputs + 1
    /\ lastOp' = [op |-> "toggleColumn", generation |-> watchGeneration]
    /\ UNCHANGED <<filterText, allEvents, recentNamespaces, watchCancel, watchGeneration,
                   namespace, autoScroll, aggregateMode, wrapMessages, filterVisible,
                   filterInput, focus, running, tableTitle, selectedRow, tableWidth,
                   tasks, queue, delivered, allOrigin, libVars>>

\* G: toggleAggregate
ToggleAggregate ==
    /\ CanPress
    /\ aggregateMode' = ~aggregateMode
    /\ tableTitle' = Title(filterText, autoScroll, aggregateMode', wrapMessages)
    /\ Refreshed(aggregateMode', filterText, columns, wrapMessages)
    /\ selectedRow' = IF aggregateMode' /\ Len(tableRows') > 1
                      THEN selectTableRow(1, Len(tableRows'))
                      ELSE selectedRow
    /\ inputs' = inputs + 1
    /\ lastOp' = [op |-> "toggleAggregate", generation |-> watchGeneration,
                   before |-> <<visibleEvents, rowToVisibleEvent>>]
    /\ UNCHANGED <<filterText, allEvents, recentNamespaces, watchCancel, watchGeneration,
                   namespace, autoScroll, columns, wrapMessages, filterVisible,
                   filterInput, focus, running, tableWidth, tasks, queue, delivered,
                   allOrigin, libVars>>

\* w: toggleWrap
ToggleWrap ==
    /\ CanPress
    /\ wrapMessages' = ~wrapMessages
    /\ tableTitle' = Title(filterText, autoScroll, aggregateMode, wrapMessages')
    /\ Refreshed(aggregateMode, filterText, columns, wrapMessages')
    /\ selectedRow' = IF Len(tableRows') > 1
                      THEN selectTableRow(Len(tableRows') - 1, Len(tableRows'))
                      ELSE selectedRow
    /\ inputs' = inputs + 1
    /\ lastOp' = [op |-> "toggleWrap", generation |-> watchGeneration,
                   before |-> <<visibleEvents, rowToVisibleEvent>>]
    /\ UNCHANGED <<filterText, allEvents, recentNamespaces, watchCancel, watchGeneration,
                   namespace, autoScroll, columns, aggregateMode, filterVisible,
                   filterInput, focus, running, tableWidth, tasks, queue, delivered,
                   allOrigin, libVars>>

\* a plausible slip: setFilterValue leaves the input field as it was
FieldAfterSet_Untouched(typed, value) == typed

\* the text of the filter field after setFilterValue: filter.SetText(value)
FieldAfterSet(typed, value) == value

\* the palette's filter and clear commands: setFilterValue(value)
SetFilterValue(value) ==
    /\ CanPress
    /\ filterText' = value
    /\ filterInput' = FieldAfterSet(filterInput, value)
    /\ tableTitle' = Title(value, autoScroll, aggregateMode, wrapMessages)
    /\ Refreshed(aggregateMode, value, columns, wrapMessages)
    /\ inputs' = inputs + 1
    /\ lastOp' = [op |-> "setFilter", generation |-> watchGeneration]
    /\ UNCHANGED <<allEvents, recentNamespaces, watchCancel, watchGeneration, namespace,
                   autoScroll, columns, aggregateMode, wrapMessages, filterVisible, focus,
                   running, selectedRow, tableWidth, tasks, queue, delivered, allOrigin,
                   libVars>>

\* "/": show the filter field, emptied, and focus it (or hide it again)
SlashKey ==
    /\ CanPress
    /\ IF filterVisible
       THEN /\ filterVisible' = FALSE
            /\ UNCHANGED <<filterInput, focus>>
       ELSE /\ filterVisible' = TRUE
            /\ filterInput' = <<>>
            /\ focus' = "filter"
    /\ inputs' = inputs + 1
    /\ lastOp' = [op |-> "slash", generation |-> watchGeneration]
    /\ UNCHANGED <<filterText, allEvents, visibleEvents, rowToVisibleEvent,
                   recentNamespaces, watchCancel, watchGeneration, namespace, autoScroll,
                   columns, aggregateMode, wrapMessages, running, tableRows, tableTitle,
                   selectedRow, tableWidth, tasks, queue, delivered, allOrigin, libVars>>

\* typing into the focused filter field
FilterType(text) ==
    /\ running
    /\ focus = "filter"
    /\ filterInput # text
    /\ filterInput' = text
    /\ lastOp' = [op |-> "filterType", generation |-> watchGeneration]
    /\ UNCHANGED <<filterText, allEvents, visibleEvents, rowToVisibleEvent,
                   recentNamespaces, watchCancel, watchGeneration, namespace, autoScroll,
                   columns, aggregateMode, wrapMessages, filterVisible, focus, running,
                   tableRows, tableTitle, selectedRow, tableWidth, tasks, queue,
                   delivered, allOrigin, inputs, libVars>>

\* Enter in the filter field: the filter's done function
FilterEnter ==
    /\ running
    /\ focus = "filter"
    /\ filterText' = filterInput
    /\ tableTitle' = Title(filterInput, autoScroll, aggregateMode, wrapMessages)
    /\ Refreshed(aggregateMode, filterInput, columns, wrapMessages)
    /\ filterVisible' = FALSE
    /\ focus' = "table"
    /\ lastOp' = [op |-> "filterEnter", generation |-> watchGeneration]
    /\ UNCHANGED <<allEvents, recentNamespaces, watchCancel, watchGeneration, namespace,
                   autoScroll, columns, aggregateMode, wrapMessages, filterInput, running,
                   selectedRow, tableWidth, tasks, queue, delivered, allOrigin, inputs,
                   libVars>>

\* Ctrl-B: scroll to the end and select the last row
ScrollToEndKey ==
    /\ CanPress
    /\ selectedRow # Len(tableRows) - 1
    /\ selectedRow' = Len(tableRows) - 1
    /\ inputs' = inputs + 1
    /\ lastOp' = [op |-> "scrollToEnd", generation |-> watchGeneration]
    /\ UNCHANGED <<filterText, allEvents, visibleEvents, rowToVisibleEvent,
                   recentNamespaces, watchCancel, watchGeneration, namespace, autoScroll,
                   columns, aggregateMode, wrapMessages, filterVisible, filterInput, focus,
                   running, tableRows, tableTitle, tableWidth, tasks, queue, delivered,
                   allOrigin, libVars>>

\* the terminal is resized: the next draw gives the table another rectangle,
\* which table.GetInnerRect() returns from then on; no closure of StartUI runs
Resize(width) ==
    /\ running
    /\ inputs < MaxInputs
    /\ width # tableWidth
    /\ tableWidth' = width
    /\ inputs' = inputs + 1
    /\ lastOp' = [op |-> "resize", generation |-> watchGeneration]
    /\ UNCHANGED <<filterText, allEvents, visibleEvents, rowToVisibleEvent,
                   recentNamespaces, watchCancel, watchGeneration, namespace, autoScroll,
                   columns, aggregateMode, wrapMessages, filterVisible, filterInput, focus,
                   running, tableRows, tableTitle, selectedRow, tasks, queue, delivered,
                   allOrigin, libVars>>

\* q or Ctrl-C: cancel the watch and stop the application
Quit ==
    /\ CanPress
    /\ tasks' = CancelWatch(tasks)
    /\ running' = FALSE
    /\ inputs' = inputs + 1
    /\ lastOp' = [op |-> "quit", generation |-> watchGeneration]
    /\ UNCHANGED <<filterText, allEvents, visibleEvents, rowToVisibleEvent,
                   recentNamespaces, watchCancel, watchGeneration, namespace, autoScroll,
                   columns, aggregateMode, wrapMessages, filterVisible, filterInput, focus,
                   tableRows, tableTitle, selectedRow, tableWidth, queue, delivered,
                   allOrigin, libVars>>

\* Ctrl-C while the filter field has the focus: handleInput returns the
\* event, the application stops itself, app.Run() returns and StartUI calls
\* watchCancel() before it returns
FilterCtrlC ==
    /\ running
    /\ focus = "filter"
    /\ inputs < MaxInputs
    /\ tasks' = CancelWatch(tasks)
    /\ running' = FALSE
    /\ inputs' = inputs + 1
    /\ lastOp' = [op |-> "quit", generation |-> watchGeneration]
    /\ UNCHANGED <<filterText, allEvents, visibleEvents, rowToVisibleEvent,
                   recentNamespaces, watchCancel, watchGeneration, namespace, autoScroll,
                   columns, aggregateMode, wrapMessages, filterVisible, filterInput, focus,
                   tableRows, tableTitle, selectedRow, tableWidth, queue, delivered,
                   allOrigin, libVars>>

\* the palette's jump command run with arg, the map of first rows visited
\* in the given order
JumpCommand(arg, order) ==
    /\ CanPress
    /\ LET jump == jumpToBestMatch(arg, rowToVisibleEvent, visibleEvents, order)
       IN  IF jump.ok
           THEN /\ selectedRow' = selectTableRow(jump.row, Len(tableRows))
                /\ UNCHANGED tableTitle
           ELSE /\ tableTitle' = [Title(filterText, autoScroll, aggregateMode, wrapMessages)
                                     EXCEPT !.banner = <<"no match for", TrimSpace(arg)>>]
                /\ UNCHANGED selectedRow
    /\ inputs' = inputs + 1
    /\ lastOp' = [op |-> "jump", generation |-> watchGeneration, arg |-> arg]
    /\ UNCHANGED <<filterText, allEvents, visibleEvents, rowToVisibleEvent,
                   recentNamespaces, watchCancel, watchGeneration, namespace, autoScroll,
                   columns, aggregateMode, wrapMessages, filterVisible, filterInput,
                   focus, running, tableRows, tableWidth, tasks, queue, delivered,
                   allOrigin, libVars>>

(***************************************************************************)
(* DetailsModal: the drill-down view opened on the selected row, its fetch *)
(* goroutine, and the keys pressed while the view has the focus.  A key    *)
(* goes to the application's input capture, handleInput, first; only an    *)
(* event handleInput returns reaches the input capture of the view.        *)
(***************************************************************************)
\* splitResource: kind and name around the first "/", both non-empty
splitResource(resource) ==
    LET parts == SplitN(TrimSpace(resource), "/", 2)
    IN  /\ Len(parts) = 2
        /\ TrimSpace(parts[1]) # <<>>
        /\ TrimSpace(parts[2]) # <<>>

\* what DetailsModal sets up: closed, the context, the goroutine, the text
NewDetails(resource) ==
    IF splitResource(resource)
    THEN [closed |-> FALSE, cancelled |-> FALSE, fetch |-> "running", text |-> "loading"]
    ELSE [closed |-> FALSE, cancelled |-> FALSE, fetch |-> "none", text |-> "unavailable"]

\* Enter on a table row: the selected function of the table
OpenDetails ==
    /\ CanPress
    /\ selectedRow > 0
    /\ selectedRow - 1 < Len(rowToVisibleEvent)
    /\ rowToVisibleEvent[selectedRow] >= 0
    /\ rowToVisibleEvent[selectedRow] < Len(visibleEvents)
    /\ LET parts == SplitN(visibleEvents[rowToVisibleEvent[selectedRow] + 1], Sep, SplitParts)
       IN  /\ Len(parts) = SplitParts
           /\ details' = Append(details, NewDetails(parts[2]))
    /\ shown' = Len(details')
    /\ focus' = "details"
    /\ inputs' = inputs + 1
    /\ lastOp' = [op |-> "openDetails", generation |-> watchGeneration]
    /\ UNCHANGED <<filterText, allEvents, visibleEvents, rowToVisibleEvent,
                   recentNamespaces, watchCancel, watchGeneration, namespace, autoScroll,
                   columns, aggregateMode, wrapMessages, filterVisible, filterInput,
                   running, tableRows, tableTitle, selectedRow, tableWidth, tasks, queue,
                   delivered, allOrigin, toolVars>>

\* GetResourceDrillDown returns, with a result, at its deadline or because
\* its context was cancelled: the goroutine queues the closure
FetchReturn(d) ==
    /\ d \in 1..Len(details)
    /\ details[d].fetch = "running"
    /\ details' = [details EXCEPT ![d].fetch = "queued"]
    /\ queue' = Enqueue(queue, [kind |-> "detail", generation |-> 0, detail |-> d])
    /\ lastOp' = [op |-> "fetch", generation |-> 0]
    /\ UNCHANGED <<filterText, allEvents, visibleEvents, rowToVisibleEvent,
                   recentNamespaces, watchCancel, watchGeneration, namespace, autoScroll,
                   columns, aggregateMode, wrapMessages, filterVisible, filterInput, focus,
                   running, tableRows, tableTitle, selectedRow, tableWidth, tasks,
                   delivered, allOrigin, inputs, shown, toolVars>>

\* if closed { return }; detailView.SetText(text)
AppliedDetails(detail) ==
    IF detail.closed THEN [detail EXCEPT !.fetch = "discarded"]
    ELSE [detail EXCEPT !.fetch = "applied", !.text = "drilldown"]

\* the update loop runs the closure of a fetch
ApplyDetail ==
    /\ running
    /\ queue # <<>>
    /\ Head(queue).kind = "detail"
    /\ details' = [details EXCEPT ![Head(queue).detail] = AppliedDetails(@)]
    /\ queue' = Tail(queue)
    /\ lastOp' = [op |-> "applyDetail", generation |-> 0]
    /\ UNCHANGED <<filterText, allEvents, visibleEvents, rowToVisibleEvent,
                   recentNamespaces, watchCancel, watchGeneration, namespace, autoScroll,
                   columns, aggregateMode, wrapMessages, filterVisible, filterInput, focus,
                   running, tableRows, tableTitle, selectedRow, tableWidth, tasks,
                   delivered, allOrigin, inputs, shown, toolVars>>

\* a key can be pressed while the drill-down view has the focus
OnDetails == running /\ focus = "details" /\ shown # 0 /\ inputs < MaxInputs

\* Esc: handleInput returns the event, the capture of the view closes it
DetailsEsc ==
    /\ OnDetails
    /\ details' = [details EXCEPT ![shown].closed = TRUE, ![shown].cancelled = TRUE]
    /\ shown' = 0
    /\ focus' = "table"
    /\ inputs' = inputs + 1
    /\ lastOp' = [op |-> "detailsKey", generation |-> watchGeneration, key |-> "Esc"]
    /\ UNCHANGED <<filterText, allEvents, visibleEvents, rowToVisibleEvent,
                   recentNamespaces, watchCancel, watchGeneration, namespace, autoScroll,
                   columns, aggregateMode, wrapMessages, filterVisible, filterInput,
                   running, tableRows, tableTitle, selectedRow, tableWidth, tasks, queue,
                   delivered, allOrigin, toolVars>>

\* q: handleInput takes its own q branch and returns nil, so the event
\* never reaches the capture of the view
DetailsQ ==
    /\ OnDetails
    /\ tasks' = CancelWatch(tasks)
    /\ running' = FALSE
    /\ inputs' = inputs + 1
    /\ lastOp' = [op |-> "detailsKey", generation |-> watchGeneration, key |-> "q"]
    /\ UNCHANGED <<filterText, allEvents, visibleEvents, rowToVisibleEvent,
                   recentNamespaces, watchCancel, watchGeneration, namespace, autoScroll,
                   columns, aggregateMode, wrapMessages, filterVisible, filterInput, focus,
                   tableRows, tableTitle, selectedRow, tableWidth, queue, delivered,
                   allOrigin, dmVars, toolVars>>

(***************************************************************************)
(* Init: the state in which app.Run() starts, after updateTableTitle() and *)
(* updateNamespace(namespace) have run once; Next; Spec.                   *)
(***************************************************************************)
InitialColumns(ns) ==
    [Timestamp |-> TRUE, Namespace |-> (ns = NamespaceAll), Status |-> TRUE,
     Action |-> TRUE, Resource |-> TRUE]

Init ==
    /\ namespace \in {NamespaceAll, NsA}
    /\ tableWidth = TerminalWidth
    /\ filterText = <<>>
    /\ allEvents = <<>>
    /\ allOrigin = <<>>
    /\ visibleEvents = <<>>
    /\ rowToVisibleEvent = <<>>
    /\ recentNamespaces = UpdateRecent(<<>>, namespace)
    /\ watchGeneration = NextGeneration(0)
    /\ watchCancel = watchGeneration
    /\ autoScroll = TRUE
    /\ columns = InitialColumns(namespace)
    /\ aggregateMode = FALSE
    /\ wrapMessages = FALSE
    /\ filterVisible = FALSE
    /\ filterInput = <<>>
    /\ focus = "table"
    /\ running = TRUE
    /\ tableRows = <<renderTableHeader(ColumnOptions(columns, FALSE))>>
    /\ tableTitle = Title(<<>>, TRUE, FALSE, FALSE)
    /\ selectedRow = 0
    /\ tasks = StartTask([g \in 1..MaxGeneration |-> NoTask], namespace, watchGeneration)
    /\ queue = <<>>
    /\ delivered = [g \in 1..MaxGeneration |-> <<>>]
    /\ inputs = 0
    /\ lastOp = [op |-> "init", generation |-> watchGeneration]
    /\ aggIn = <<>>
    /\ aggOut = <<>>
    /\ fltIn = <<>>
    /\ fltText = <<>>
    /\ fltOut = <<>>
    /\ fzQuery = <<>>
    /\ fzA = <<>>
    /\ fzB = <<>>
    /\ fzResA = fuzzyMatchScore(<<>>, <<>>)
    /\ fzResB = fuzzyMatchScore(<<>>, <<>>)
    /\ palQuery = <<>>
    /\ palCommands = <<>>
    /\ palJumps = <<>>
    /\ palResults = buildCommandPaletteResults(<<>>, <<>>, <<>>)
    /\ cmOpen = FALSE
    /\ cmText = <<>>
    /\ cmJumps = <<>>
    /\ cmResults = <<>>
    /\ cmSelection = 0
    /\ cmDone = NoOutcome
    /\ wrText = <<>>
    /\ wrWidth = 1
    /\ wrLines = wrapLine(<<>>, 1)
    /\ wrMessage = wrapMessage(<<>>, 1)
    /\ mwWidth = 0
    /\ mwOpts = ColumnOptions(InitialColumns(NamespaceAll), FALSE)
    /\ mwOut = messageColumnWidth(0, mwOpts)
    /\ details = <<>>
    /\ shown = 0

Next ==
    \/ \E ns \in NamespaceList : SelectNamespace(ns)
    \/ \E d \in 0..MaxRecent : RecentKey(d)
    \/ \E g \in 1..MaxGeneration : TaskSetup(g)
    \/ \E g \in 1..MaxGeneration : \E stage \in {"init", "list", "watch"} : TaskFail(g, stage)
    \/ \E g \in 1..MaxGeneration : \E e \in ClusterEvents : TaskDeliver(g, e)
    \/ \E g \in 1..MaxGeneration : TaskReturn(g)
    \/ ApplyEvent
    \/ ApplyWatchError
    \/ ToggleAutoScroll
    \/ \E c \in {"Timestamp", "Action", "Status", "Resource"} : ToggleColumn(c)
    \/ ToggleAggregate
    \/ ToggleWrap
    \/ \E value \in FilterTexts : SetFilterValue(value)
    \/ SlashKey
    \/ \E text \in FilterTexts : FilterType(text)
    \/ FilterEnter
    \/ ScrollToEndKey
    \/ Quit

Spec == Init /\ [][Next]_vars

(***************************************************************************)
(* AggSpec: aggregateEvents applied to every short sequence of lines.      *)
(***************************************************************************)
\* events of one key with distinct, tied and zero timestamps, one of a second
\* key, and two whose name and reason hold the character that joins the key
AggEvents ==
    { Ev(1, <<"P">>, <<"a">>, Normal, <<"C">>, <<"d">>, <<"m", "1">>),
      Ev(2, <<"P">>, <<"a">>, Warning, <<"C">>, <<"d">>, <<"m", "2">>),
      Ev(2, <<"P">>, <<"a">>, Normal, <<"C">>, <<"d">>, <<"m", "3">>),
      Ev(0, <<"P">>, <<"a">>, Normal, <<"C">>, <<"d">>, <<"m", "0">>),
      Ev(2, <<"P">>, <<"b">>, Normal, <<"K">>, <<"d">>, <<"m", "4">>),
      Ev(2, <<"P">>, <<"b">>, Normal, <<"C">>, <<"d">>, <<"m", "7">>),
      Ev(1, <<"P">>, <<"x", "|", "y">>, Normal, <<"z">>, <<"d">>, <<"m", "5">>),
      Ev(1, <<"P">>, <<"x">>, Normal, <<"y", "|", "z">>, <<"d">>, <<"m", "6">>) }

\* a line that does not split into six parts
MalformedLine == <<"x", " ", Sep, " ", "y">>

AggInputLines == {FormatEventLine(e) : e \in AggEvents} \cup {MalformedLine}

\* the pipeline is at rest in AggSpec: its variables keep one initial value
AggInit ==
    /\ Init
    /\ namespace = NamespaceAll

AggAppend(line) ==
    /\ Len(aggIn) < MaxAggLen
    /\ aggIn' = Append(aggIn, line)
    /\ aggOut' = aggregateEvents(aggIn')
    /\ UNCHANGED <<uiVars, laterVars, fltVars, fzVars, palVars>>

AggRestart ==
    /\ aggIn # <<>>
    /\ aggIn' = <<>>
    /\ aggOut' = aggregateEvents(<<>>)
    /\ UNCHANGED <<uiVars, laterVars, fltVars, fzVars, palVars>>

AggNext ==
    \/ \E line \in AggInputLines : AggAppend(line)
    \/ AggRestart

AggSpec == AggInit /\ [][AggNext]_vars

(***************************************************************************)
(* RecentSpec: scope changes only, in a cluster with more namespaces than  *)
(* the recent list holds.                                                  *)
(***************************************************************************)
NsC == <<"c">>
NsD == <<"d">>

WideNamespaceList == NamespaceList \cup {NsC, NsD}

RecentNext ==
    \/ \E ns \in WideNamespaceList : SelectNamespace(ns)
    \/ \E d \in 0..MaxRecent : RecentKey(d)

RecentSpec == Init /\ [][RecentNext]_vars

(***************************************************************************)
(* FilterSpec: filterEvents applied to every sequence of up to MaxFltLen   *)
(* rows and every filter text of FltTexts.                                 *)
(***************************************************************************)
MaxFltLen == 3

\* rows of a Warning event, of a Normal event and of a Normal event whose
\* message holds the word in lower case
FltRows ==
    { FormatEventLine(Ev(1, <<"P">>, <<"a">>, Warning, <<"K">>, <<"d">>, <<"m", "1">>)),
      FormatEventLine(Ev(2, <<"P">>, <<"b">>, Normal, <<"C">>, <<"d">>, <<"m", "2">>)),
      FormatEventLine(Ev(3, <<"P">>, <<"b">>, Normal, <<"C">>, <<"d">>,
                         <<"w", "a", "r", "n">>)) }

FltTexts ==
    { <<>>, <<"W", "a", "r", "n">>, <<"w", "a", "r", "n">>,
      <<"N", "o", "r", "m", "a", "l", " ">> }

FltAppend(row) ==
    /\ Len(fltIn) < MaxFltLen
    /\ fltIn' = Append(fltIn, row)
    /\ fltOut' = filterEvents(fltIn', fltText)
    /\ UNCHANGED <<uiVars, laterVars, aggVars, fzVars, palVars, fltText>>

FltSetText(text) ==
    /\ fltText # text
    /\ fltText' = text
    /\ fltOut' = filterEvents(fltIn, text)
    /\ UNCHANGED <<uiVars, laterVars, aggVars, fzVars, palVars, fltIn>>

FltRestart ==
    /\ fltIn # <<>>
    /\ fltIn' = <<>>
    /\ fltOut' = filterEvents(<<>>, fltText)
    /\ UNCHANGED <<uiVars, laterVars, aggVars, fzVars, palVars, fltText>>

FltNext ==
    \/ \E row \in FltRows : FltAppend(row)
    \/ \E text \in FltTexts : FltSetText(text)
    \/ FltRestart

FilterSpec == AggInit /\ [][FltNext]_vars

(***************************************************************************)
(* FuzzySpec: fuzzyMatchScore applied to every typed query of up to        *)
(* MaxQueryLen characters and every two candidates of FzCandidates.        *)
(***************************************************************************)
MaxQueryLen == 2

FzAlphabet == {"p", "d", "P", " "}

\* a candidate holding "pd" behind a long run of other characters
FarContains == [i \in 1..402 |-> IF i = 401 THEN "p" ELSE IF i = 402 THEN "d" ELSE "x"]

\* a candidate holding "p" and "d" far apart
FarApart == [i \in 1..42 |-> IF i = 1 THEN "p" ELSE IF i = 42 THEN "d" ELSE "x"]

FzCandidates ==
    { <<"D", "e", "p", "l", "o", "y", "m", "e", "n", "t", "/", "p", "d", "-", "w", "o", "r", "k", "e", "r">>,
      <<"P", "o", "d", "/", "w", "e", "b", "-", "1">>,
      <<"p", "-", "d">>,
      <<" ", "P", "D", " ">>,
      <<"w", "e", "b">>,
      <<>>,
      FarContains,
      FarApart }

FzType(c) ==
    /\ Len(fzQuery) < MaxQueryLen
    /\ fzQuery' = Append(fzQuery, c)
    /\ fzResA' = fuzzyMatchScore(fzQuery', fzA)
    /\ fzResB' = fuzzyMatchScore(fzQuery', fzB)
    /\ UNCHANGED <<uiVars, laterVars, aggVars, fltVars, palVars, fzA, fzB>>

FzClear ==
    /\ fzQuery # <<>>
    /\ fzQuery' = <<>>
    /\ fzResA' = fuzzyMatchScore(<<>>, fzA)
    /\ fzResB' = fuzzyMatchScore(<<>>, fzB)
    /\ UNCHANGED <<uiVars, laterVars, aggVars, fltVars, palVars, fzA, fzB>>

FzPickA(a) ==
    /\ fzA # a
    /\ fzA' = a
    /\ fzResA' = fuzzyMatchScore(fzQuery, a)
    /\ UNCHANGED <<uiVars, laterVars, aggVars, fltVars, palVars, fzQuery, fzB, fzResB>>

FzPickB(b) ==
    /\ fzB # b
    /\ fzB' = b
    /\ fzResB' = fuzzyMatchScore(fzQuery, b)
    /\ UNCHANGED <<uiVars, laterVars, aggVars, fltVars, palVars, fzQuery, fzA, fzResA>>

FzNext ==
    \/ \E c \in FzAlphabet : FzType(c)
    \/ FzClear
    \/ \E a \in FzCandidates : FzPickA(a)
    \/ \E b \in FzCandidates : FzPickB(b)

FuzzySpec == AggInit /\ [][FzNext]_vars

(***************************************************************************)
(* PaletteSpec: buildCommandPaletteResults applied to the registered       *)
(* commands, to up to MaxPalJumps jump candidates and to every typed query *)
(* of up to MaxPalQuery characters.                                        *)
(***************************************************************************)
MaxPalJumps == 13
MaxPalQuery == 2

PalAlphabet == {"n", "s", " "}

\* the lines the jump candidates are built from, taken in turn
PalLines ==
    << FormatEventLine(Ev(1, <<"P">>, <<"n">>, Warning, <<"K">>, <<"d">>, <<"n", "s">>)),
       FormatEventLine(Ev(2, <<"P">>, <<"b">>, Normal, <<"C">>, <<"s">>, <<"m">>)),
       <<>> >>

\* CommandPaletteJump{Label, Detail, Search, Row}
JumpInput(row) ==
    [Label |-> <<"r">>, Detail |-> <<"r", "o", "w", " ">> \o Itoa(row),
     Search |-> TrimSpace(PalLines[((row - 1) % Len(PalLines)) + 1]), Row |-> row]

PalRegister ==
    /\ Len(palCommands) < Len(RegisteredCommands)
    /\ palCommands' = Append(palCommands, RegisteredCommands[Len(palCommands) + 1])
    /\ palResults' = buildCommandPaletteResults(palQuery, palCommands', palJumps)
    /\ UNCHANGED <<uiVars, laterVars, aggVars, fltVars, fzVars, palQuery, palJumps>>

PalAddJump ==
    /\ Len(palJumps) < MaxPalJumps
    /\ palJumps' = Append(palJumps, JumpInput(Len(palJumps) + 1))
    /\ palResults' = buildCommandPaletteResults(palQuery, palCommands, palJumps')
    /\ UNCHANGED <<uiVars, laterVars, aggVars, fltVars, fzVars, palQuery, palCommands>>

PalType(c) ==
    /\ Len(palQuery) < MaxPalQuery
    /\ palQuery' = Append(palQuery, c)
    /\ palResults' = buildCommandPaletteResults(palQuery', palCommands, palJumps)
    /\ UNCHANGED <<uiVars, laterVars, aggVars, fltVars, fzVars, palCommands, palJumps>>

PalClear ==
    /\ palQuery # <<>>
    /\ palQuery' = <<>>
    /\ palResults' = buildCommandPaletteResults(<<>>, palCommands, palJumps)
    /\ UNCHANGED <<uiVars, laterVars, aggVars, fltVars, fzVars, palCommands, palJumps>>

PalNext ==
    \/ PalRegister
    \/ PalAddJump
    \/ \E c \in PalAlphabet : PalType(c)
    \/ PalClear

PaletteSpec == AggInit /\ [][PalNext]_vars

(***************************************************************************)
(* ModalSpec: the command palette opened over the registered commands and  *)
(* a list of jump candidates, its keys pressed in any order: characters    *)
(* typed up to MaxCmText, Up, Down, Enter and Esc.  The overlay is drawn   *)
(* after every key, which runs updateResults.                              *)
(***************************************************************************)
MaxCmText == 4

CmAlphabet == {"n", "s", " ", "J"}

\* the jump candidates the palette is opened with: none, or five rows of
\* which rows 1 and 4 and rows 2 and 5 read the same
CmJumpLists == {<<>>, [k \in 1..5 |-> JumpInput(k)]}

CmOpen(jumps) ==
    /\ ~cmOpen
    /\ cmOpen' = TRUE
    /\ cmText' = <<>>
    /\ cmJumps' = jumps
    /\ cmResults' = buildCommandPaletteResults(<<>>, RegisteredCommands, jumps)
    /\ cmSelection' = ClampSelection(0, Len(cmResults'))
    /\ cmDone' = NoOutcome
    /\ UNCHANGED <<uiVars, firstVars, wrVars, mwVars, dmVars>>

\* the default branch: the input field takes the key, its changed function
\* runs, the overlay is drawn
CmType(c) ==
    /\ cmOpen
    /\ Len(cmText) < MaxCmText
    /\ cmText' = Append(cmText, c)
    /\ cmResults' = buildCommandPaletteResults(cmText', RegisteredCommands, cmJumps)
    /\ cmSelection' = ClampSelection(0, Len(cmResults'))
    /\ UNCHANGED <<uiVars, firstVars, wrVars, mwVars, dmVars, cmOpen, cmJumps, cmDone>>

CmUp ==
    /\ cmOpen
    /\ cmSelection' = ClampSelection(cmSelection - 1, Len(cmResults))
    /\ cmSelection' # cmSelection
    /\ UNCHANGED <<uiVars, firstVars, wrVars, mwVars, dmVars, cmOpen, cmText, cmJumps,
                   cmResults, cmDone>>

CmDown ==
    /\ cmOpen
    /\ cmSelection' = ClampSelection(cmSelection + 1, Len(cmResults))
    /\ cmSelection' # cmSelection
    /\ UNCHANGED <<uiVars, firstVars, wrVars, mwVars, dmVars, cmOpen, cmText, cmJumps,
                   cmResults, cmDone>>

CmEnter ==
    /\ cmOpen
    /\ cmOpen' = FALSE
    /\ cmDone' = executeSelection(cmText, RegisteredCommands, cmJumps, cmResults, cmSelection)
    /\ UNCHANGED <<uiVars, firstVars, wrVars, mwVars, dmVars, cmText, cmJumps, cmResults,
                   cmSelection>>

CmEsc ==
    /\ cmOpen
    /\ cmOpen' = FALSE
    /\ cmDone' = Escaped
    /\ UNCHANGED <<uiVars, firstVars, wrVars, mwVars, dmVars, cmText, cmJumps, cmResults,
                   cmSelection>>

CmNext ==
    \/ \E jumps \in CmJumpLists : CmOpen(jumps)
    \/ \E c \in CmAlphabet : CmType(c)
    \/ CmUp
    \/ CmDown
    \/ CmEnter
    \/ CmEsc

ModalSpec == AggInit /\ [][CmNext]_vars

(***************************************************************************)
(* JumpSpec: events arrive and are shown, raw or aggregated, and the jump  *)
(* command is run with a query.                                            *)
(***************************************************************************)
\* nothing, a blank, a kind and name two events share, a reason one event
\* has, and a letter no line holds
JumpQueries == { <<>>, <<" ">>, <<"P", "/", "x">>, <<"K">>, <<"q">> }

JumpNext ==
    \/ \E g \in 1..MaxGeneration : TaskSetup(g)
    \/ \E g \in 1..MaxGeneration : \E e \in ClusterEvents : TaskDeliver(g, e)
    \/ ApplyEvent
    \/ ToggleAggregate
    \/ ToggleWrap
    \/ \E arg \in JumpQueries : \E order \in VisitOrders(rowToVisibleEvent) :
          JumpCommand(arg, order)

JumpSpec == Init /\ [][JumpNext]_vars

(***************************************************************************)
(* WrapSpec: wrapLine and wrapMessage applied to every short text and to   *)
(* small widths.  Go's len and slices count bytes, so the text is held as  *)
(* its bytes: a letter, a blank or a line feed is one byte, the bullet is  *)
(* the three bytes of its UTF-8 encoding.                                  *)
(***************************************************************************)
MaxWrapLen == 4
MaxWrapWidth == 3

WrapAlphabet == {"a", "b", " ", "\n", Bullet}

BulletBytes == <<"E2", "80", "A2">>

Utf8(c) == IF c = Bullet THEN BulletBytes ELSE <<c>>

\* the bytes that continue a character
Continuation == {"80", "A2"}

\* the number of characters the bytes begin
CharLen(bytes) == Cardinality({i \in 1..Len(bytes) : bytes[i] \notin Continuation})

WrApply ==
    /\ wrLines' = wrapLine(wrText', wrWidth')
    /\ wrMessage' = wrapMessage(wrText', wrWidth')

WrType(c) ==
    /\ CharLen(wrText) < MaxWrapLen
    /\ wrText' = wrText \o Utf8(c)
    /\ wrWidth' = wrWidth
    /\ WrApply
    /\ UNCHANGED <<uiVars, firstVars, cmVars, mwVars, dmVars>>

WrClear ==
    /\ wrText # <<>>
    /\ wrText' = <<>>
    /\ wrWidth' = wrWidth
    /\ WrApply
    /\ UNCHANGED <<uiVars, firstVars, cmVars, mwVars, dmVars>>

WrSetWidth(width) ==
    /\ width # wrWidth
    /\ wrWidth' = width
    /\ wrText' = wrText
    /\ WrApply
    /\ UNCHANGED <<uiVars, firstVars, cmVars, mwVars, dmVars>>

WrNext ==
    \/ \E c \in WrapAlphabet : WrType(c)
    \/ WrClear
    \/ \E width \in 0..MaxWrapWidth : WrSetWidth(width)

WrapSpec == AggInit /\ [][WrNext]_vars

(***************************************************************************)
(* WidthSpec: messageColumnWidth applied to every table width up to        *)
(* MaxTableWidth and to every choice of columns.                           *)
(***************************************************************************)
MaxTableWidth == 60

ColumnNames == {"Timestamp", "Namespace", "Status", "Action", "Resource"}

MwSetWidth(width) ==
    /\ width # mwWidth
    /\ mwWidth' = width
    /\ mwOut' = messageColumnWidth(width, mwOpts)
    /\ UNCHANGED <<uiVars, firstVars, cmVars, wrVars, dmVars, mwOpts>>

MwToggle(c) ==
    /\ mwOpts' = [mwOpts EXCEPT ![c] = ~mwOpts[c]]
    /\ mwOut' = messageColumnWidth(mwWidth, mwOpts')
    /\ UNCHANGED <<uiVars, firstVars, cmVars, wrVars, dmVars, mwWidth>>

MwNext ==
    \/ \E width \in 0..MaxTableWidth : MwSetWidth(width)
    \/ \E c \in ColumnNames : MwToggle(c)

WidthSpec == AggInit /\ [][MwNext]_vars

(***************************************************************************)
(* DetailsSpec: events arrive and are shown, the drill-down view is opened *)
(* on the selected row, its fetch returns and is applied, and Esc or q is  *)
(* pressed in the view.                                                    *)
(***************************************************************************)
DetailsNext ==
    \/ \E g \in 1..MaxGeneration : TaskSetup(g)
    \/ \E g \in 1..MaxGeneration : \E e \in ClusterEvents : TaskDeliver(g, e)
    \/ ApplyEvent
    \/ OpenDetails
    \/ \E d \in 1..Len(details) : FetchReturn(d)
    \/ ApplyDetail
    \/ DetailsEsc
    \/ DetailsQ

DetailsSpec == Init /\ [][DetailsNext]_vars

(***************************************************************************)
(* LiveSpec: scopes are selected, the streams deliver, the tasks hand      *)
(* their closures to a queue of QueueCapacity places and the update loop   *)
(* runs them.  The goroutines are scheduled: a cancelled task that can     *)
(* take a step takes one, and a select with ctx.Done() ready takes that    *)
(* case in the end.  The update loop keeps running the closures queued.    *)
(***************************************************************************)
\* the scope changes of one run: generations 1..MaxLiveGeneration
MaxLiveGeneration == 2

LiveNext ==
    \/ \E ns \in NamespaceList :
          watchGeneration < MaxLiveGeneration /\ SelectNamespace(ns)
    \/ \E g \in 1..MaxLiveGeneration : TaskSetup(g)
    \/ \E g \in 1..MaxLiveGeneration : \E e \in ClusterEvents : TaskReceive(g, e)
    \/ \E g \in 1..MaxLiveGeneration : TaskHandOff(g)
    \/ \E g \in 1..MaxLiveGeneration : TaskReturn(g)
    \/ ApplyEvent

\* the update loop takes the oldest closure off its queue
Drains == queue # <<>> /\ queue' = Tail(queue)

\* the update loop keeps draining: weak fairness of its steps, written with
\* the condition under which it has a closure to run
KeepsDraining == []<>(queue = <<>> \/ ~running) \/ []<><<Drains>>_vars

LiveFairness ==
    /\ \A g \in 1..MaxLiveGeneration : WF_vars(CancelledSetup(g))
    /\ \A g \in 1..MaxLiveGeneration : WF_vars(TaskHandOff(g))
    /\ \A g \in 1..MaxLiveGeneration : WF_vars(CancelledReturn(g))
    /\ KeepsDraining

LiveSpec == Init /\ [][LiveNext]_vars /\ LiveFairness

(***************************************************************************)
(* LayoutSpec: events arrive and are shown, the modes and the columns are  *)
(* toggled, and the terminal is resized between two refreshes.             *)
(***************************************************************************)
\* inner width of the table on a wide terminal
WideTerminal == 120

TableWidths == {TerminalWidth, WideTerminal}

LayoutNext ==
    \/ \E g \in 1..MaxGeneration : TaskSetup(g)
    \/ \E g \in 1..MaxGeneration : \E e \in ClusterEvents : TaskDeliver(g, e)
    \/ ApplyEvent
    \/ ToggleWrap
    \/ ToggleAggregate
    \/ \E c \in {"Timestamp", "Action", "Status", "Resource"} : ToggleColumn(c)
    \/ \E width \in TableWidths : Resize(width)

LayoutSpec == Init /\ [][LayoutNext]_vars

(***************************************************************************)
(* DropSpec: events arrive while autoscroll is toggled, the table is       *)
(* refreshed by the mode toggles and the filter, and the scope is changed. *)
(***************************************************************************)
DropNext ==
    \/ \E g \in 1..MaxGeneration : TaskSetup(g)
    \/ \E g \in 1..MaxGeneration : \E e \in ClusterEvents : TaskDeliver(g, e)
    \/ ApplyEvent
    \/ ToggleAutoScroll
    \/ ToggleAggregate
    \/ ToggleWrap
    \/ \E value \in FilterTexts : SetFilterValue(value)
    \/ \E ns \in NamespaceList : SelectNamespace(ns)

DropSpec == Init /\ [][DropNext]_vars

(***************************************************************************)
(* QuitSpec: scopes are selected, the subscription tasks run, fail and     *)
(* return, and the application is quit from the table or from the filter   *)
(* field.                                                                  *)
(***************************************************************************)
QuitNext ==
    \/ \E ns \in NamespaceList : SelectNamespace(ns)
    \/ \E d \in 0..MaxRecent : RecentKey(d)
    \/ \E g \in 1..MaxGeneration : TaskSetup(g)
    \/ \E g \in 1..MaxGeneration : \E stage \in {"init", "list", "watch"} : TaskFail(g, stage)
    \/ \E g \in 1..MaxGeneration : \E e \in ClusterEvents : TaskDeliver(g, e)
    \/ \E g \in 1..MaxGeneration : TaskReturn(g)
    \/ ApplyEvent
    \/ ApplyWatchError
    \/ SlashKey
    \/ Quit
    \/ FilterCtrlC

QuitSpec == Init /\ [][QuitNext]_vars

(***************************************************************************)
(* StreamSpec: the streams deliver events and other objects, are closed by *)
(* the server or cancelled by a scope change, and setups fail.             *)
(***************************************************************************)
StreamNext ==
    \/ \E ns \in NamespaceList : SelectNamespace(ns)
    \/ \E g \in 1..MaxGeneration : TaskSetup(g)
    \/ \E g \in 1..MaxGeneration : \E stage \in {"init", "list", "watch"} : TaskFail(g, stage)
    \/ \E g \in 1..MaxGeneration : \E e \in ClusterEvents : TaskDeliver(g, e)
    \/ \E g \in 1..MaxGeneration : TaskSkipObject(g)
    \/ \E g \in 1..MaxGeneration : StreamEnd(g)
    \/ \E g \in 1..MaxGeneration : CancelledReturn(g)
    \/ ApplyEvent
    \/ ApplyWatchError

StreamSpec == Init /\ [][StreamNext]_vars

(***************************************************************************)
(* What a reader of the lines sees: the fields of an input line and of an  *)
(* output line, split and trimmed as renderRow and aggregateEvents do.     *)
(***************************************************************************)
WellFormed(line) == Len(SplitN(line, Sep, SplitParts)) = SplitParts

Field(line, k) == TrimSpace(SplitN(line, Sep, SplitParts)[k])

\* (namespace, resource, reason) of a line
Triple(line) == <<Field(line, 5), Field(line, 2), Field(line, 4)>>

LineTime(line) == ParseTime(Field(line, 1))

\* the count column of an output line
LineCount(line) == Atoi(Field(line, 3))

RECURSIVE SumCounts(_)
SumCounts(lines) ==
    IF lines = <<>> THEN 0 ELSE LineCount(Head(lines)) + SumCounts(Tail(lines))

AllWellFormed(lines) == \A i \in 1..Len(lines) : WellFormed(lines[i])

\* ---- properties of the pipeline (Spec) ----
IsPrefix(s, t) == Len(s) <= Len(t) /\ SubSeq(t, 1, Len(s)) = s

\* s can be obtained from t by deleting entries
RECURSIVE IsSubsequence(_, _)
IsSubsequence(s, t) ==
    IF s = <<>> THEN TRUE
    ELSE IF t = <<>> THEN FALSE
    ELSE IF Head(s) = Head(t) THEN IsSubsequence(Tail(s), Tail(t))
    ELSE IsSubsequence(s, Tail(t))

Range(f) == {f[i] : i \in DOMAIN f}

\* what the table shows is computed from this list
DisplayEvents == IF aggregateMode THEN aggregateEvents(allEvents) ELSE allEvents

\* a step of the update loop that runs the oldest queued closure
RunsQueued == queue # <<>> /\ queue' = Tail(queue)

\* C1: generation invariant: every entry of the Event Log was delivered by the
\* subscription task of the current watchGeneration, and every visible line
\* is computed from those entries
C1_GenerationInvariant ==
    /\ Len(allOrigin) = Len(allEvents)
    /\ \A i \in 1..Len(allEvents) :
          /\ allOrigin[i] = watchGeneration
          /\ \E e \in Range(delivered[watchGeneration]) : allEvents[i] = FormatEventLine(e)
    /\ Range(visibleEvents) \subseteq Range(DisplayEvents)

\* scope a, then scope b: the new task's event is in the log, and the event
\* the superseded task delivered afterwards has just been discarded
C1_Witness ==
    /\ lastOp.op = "staleEvent"
    /\ watchGeneration = 2
    /\ tasks[1].ns = NsA
    /\ namespace = NsB
    /\ delivered[1] # <<>>
    /\ allEvents # <<>>
    /\ queue = <<>>

\* the tasks that exist
Started(ts) == {g \in 1..MaxGeneration : ts[g].pc # "none"}

\* C2: a call of updateNamespace cancels the previous subscription, adds one to
\* watchGeneration, empties allEvents, visibleEvents and rowToVisibleEvent
\* and starts one task with the new generation and scope; nothing else
\* changes watchGeneration or starts a task
C2_ScopeChange ==
    [][ IF lastOp'.op = "updateNamespace"
        THEN /\ watchGeneration' = watchGeneration + 1
             /\ watchCancel # 0 => tasks'[watchCancel].cancelled
             /\ allEvents' = <<>>
             /\ visibleEvents' = <<>>
             /\ rowToVisibleEvent' = <<>>
             /\ Started(tasks') = Started(tasks) \cup {watchGeneration'}
             /\ watchGeneration' \notin Started(tasks)
             /\ tasks'[watchGeneration'] =
                   [ns |-> namespace', pc |-> "setup", cancelled |-> FALSE]
        ELSE /\ watchGeneration' = watchGeneration
             /\ Started(tasks') = Started(tasks)
      ]_vars

\* updateNamespace was called with the scope that was already current
C2_Witness ==
    /\ lastOp.op = "updateNamespace"
    /\ watchGeneration >= 2
    /\ tasks[watchGeneration - 1].ns = namespace
    /\ tasks[watchGeneration - 1].cancelled
    /\ tasks[watchGeneration].pc = "setup"

\* C3: running a queued closure whose generation is not the current one
\* changes neither the log, the visible lines, the row table, the table rows,
\* the selection nor the title
C3_StaleIsNoOp ==
    [][ (RunsQueued /\ Head(queue).generation # watchGeneration) =>
            UNCHANGED <<allEvents, visibleEvents, rowToVisibleEvent, tableRows,
                        selectedRow, tableTitle>>
      ]_vars

\* a superseded task's error was discarded while the log held an event
C3_Witness ==
    /\ lastOp.op = "staleError"
    /\ lastOp.generation < watchGeneration
    /\ allEvents # <<>>
    /\ tableTitle.banner = <<>>

\* C4: view consistency: visibleEvents is the filter applied to the log (to
\* its aggregation in aggregate mode), and rowToVisibleEvent is what a full
\* refresh computes from it
C4_ViewConsistent ==
    /\ visibleEvents = filterEvents(DisplayEvents, filterText)
    /\ rowToVisibleEvent =
          renderTable(visibleEvents, <<>>, currentColumns, wrapMessages, tableWidth).rowToEvent

\* the incremental path has run under a filter that hides part of the log
C4_Witness ==
    /\ lastOp.op = "ingest"
    /\ ~aggregateMode /\ ~wrapMessages
    /\ filterText # <<>>
    /\ visibleEvents # <<>>
    /\ Len(visibleEvents) < Len(allEvents)

\* C5: back-reference validity: one entry of rowToVisibleEvent per data row
\* of the table, each an index into visibleEvents
C5_BackReferences ==
    /\ Len(rowToVisibleEvent) = Len(tableRows) - 1
    /\ \A r \in 1..Len(rowToVisibleEvent) :
          0 <= rowToVisibleEvent[r] /\ rowToVisibleEvent[r] < Len(visibleEvents)

\* rows appended one by one were rebuilt with wrapping: more rows than events
C5_Witness ==
    /\ lastOp.op = "toggleWrap"
    /\ wrapMessages
    /\ Len(allEvents) = 2
    /\ Len(rowToVisibleEvent) > Len(visibleEvents)

\* the lines of the events the stream of generation g delivered, in order
DeliveredLines(g) == [i \in 1..Len(delivered[g]) |-> FormatEventLine(delivered[g][i])]

\* C6: within one generation the log only grows at its end, and its entries
\* are in the order in which the generation's stream delivered them
C6_AppendOnly ==
    [][ /\ watchGeneration' = watchGeneration => IsPrefix(allEvents, allEvents')
        /\ IsSubsequence(allEvents', DeliveredLines(watchGeneration)')
      ]_vars

\* two different events of one generation are in the log
C6_Witness ==
    /\ lastOp.op = "ingest"
    /\ Len(allEvents) = 2
    /\ allEvents[1] # allEvents[2]

\* a step of the update loop that runs the ingest closure of an event of the
\* current generation
RunsCurrentEvent ==
    /\ RunsQueued
    /\ Head(queue).kind = "event"
    /\ Head(queue).generation = watchGeneration

\* what C7 promises of such a step
FullRecompute ==
    /\ allEvents' = Append(allEvents, FormatEventLine(Head(queue).event))
    /\ visibleEvents' = filterEvents(aggregateEvents(allEvents'), filterText)

\* C7 as claimed: in aggregate mode every ingestion of a current-generation
\* event adds it to the log and recomputes the displayed groups
C7_AggregateIngest_Claimed ==
    [][ (RunsCurrentEvent /\ aggregateMode) => FullRecompute ]_vars

\* C7 as amended: the same while autoScroll is on
C7_AggregateIngest ==
    [][ (RunsCurrentEvent /\ aggregateMode /\ autoScroll) => FullRecompute ]_vars

\* in aggregate mode a second event of a group was ingested: one group of two
C7_Witness ==
    /\ lastOp.op = "ingest"
    /\ aggregateMode
    /\ Len(allEvents) = 2
    /\ Len(visibleEvents) = 1
    /\ LineCount(visibleEvents[1]) = 2

\* ---- properties of aggregateEvents (AggSpec) ----
\* C8: aggregation preserves the total count: over well-formed lines the
\* counts of the returned groups add up to the number of input lines
C8_CountPreserved ==
    AllWellFormed(aggIn) => SumCounts(aggOut) = Len(aggIn)

\* three well-formed lines were aggregated into two groups
C8_Witness ==
    /\ Len(aggIn) = 3
    /\ AllWellFormed(aggIn)
    /\ Len(aggOut) = 2

\* positions of the input lines that carry the triple tr
Contributors(lines, tr) == {i \in 1..Len(lines) : WellFormed(lines[i]) /\ Triple(lines[i]) = tr}

\* C9: one group per distinct (namespace, resource, reason) of the input; its
\* count is the number of contributing lines, its lastSeen their greatest
\* timestamp, its message that of a contributing line with that timestamp
C9_OneGroupPerTriple ==
    LET triples == {Triple(aggIn[i]) : i \in {k \in 1..Len(aggIn) : WellFormed(aggIn[k])}}
    IN  /\ Len(aggOut) = Cardinality(triples)
        /\ {Triple(aggOut[j]) : j \in 1..Len(aggOut)} = triples
        /\ \A j \in 1..Len(aggOut) :
              LET c == Contributors(aggIn, Triple(aggOut[j]))
              IN  /\ LineCount(aggOut[j]) = Cardinality(c)
                  /\ \A i \in c : LineTime(aggIn[i]) <= LineTime(aggOut[j])
                  /\ \E i \in c : /\ LineTime(aggIn[i]) = LineTime(aggOut[j])
                                  /\ Field(aggIn[i], 6) = Field(aggOut[j], 6)

\* positions of the input lines that went into the group g of the summary
GroupMembers(lines, g) ==
    {i \in 1..Len(lines) :
        /\ WellFormed(lines[i])
        /\ GroupKey(Field(lines[i], 5), Field(lines[i], 2), Field(lines[i], 4)) = g.key}

\* C10: among the lines of a group that share its greatest timestamp, the one
\* that arrived last gives the group's lastMessage and lastType (stated for
\* the groups all of whose lines carry one triple)
C10_TieLastWins ==
    LET summary == AggregateSummary(aggIn)
    IN  \A j \in 1..Len(summary) :
            LET members == GroupMembers(aggIn, summary[j])
                newest == {i \in members :
                              \A k \in members : LineTime(aggIn[k]) <= LineTime(aggIn[i])}
                last == SetMax(newest)
            IN  (\A i, k \in members : Triple(aggIn[i]) = Triple(aggIn[k])) =>
                    /\ summary[j].lastMessage = Field(aggIn[last], 6)
                    /\ summary[j].lastType = Field(aggIn[last], 3)

\* the earlier line does not come after the later one under the chain: count
\* descending, lastSeen descending, then namespace, resource, reason ascending
InOrder(a, b) ==
    IF LineCount(a) # LineCount(b) THEN LineCount(a) > LineCount(b)
    ELSE IF LineTime(a) # LineTime(b) THEN LineTime(a) > LineTime(b)
    ELSE IF Field(a, 5) # Field(b, 5) THEN StrLess(Field(a, 5), Field(b, 5))
    ELSE IF Field(a, 2) # Field(b, 2) THEN StrLess(Field(a, 2), Field(b, 2))
    ELSE ~StrLess(Field(b, 4), Field(a, 4))

\* C11: the groups aggregateEvents returns are ordered by descending count,
\* then descending lastSeen, then ascending namespace, resource and reason:
\* no output line comes before a line that precedes it under this chain
C11_SortOrder ==
    \A i, j \in 1..Len(aggOut) : i < j => InOrder(aggOut[i], aggOut[j])

\* three groups of one line each: the newer two first, told apart by their
\* reason, the older one last
C11_Witness ==
    /\ Len(aggOut) = 3
    /\ LineTime(aggOut[1]) = LineTime(aggOut[2])
    /\ Field(aggOut[1], 2) = Field(aggOut[2], 2)
    /\ Field(aggOut[1], 4) # Field(aggOut[2], 4)
    /\ LineTime(aggOut[3]) < LineTime(aggOut[2])

\* C12: the sort order is a strict total order on the groups of one input:
\* of two distinct groups exactly one is less than the other, so the sorted
\* output is the same whatever order the group map is iterated in
C12_TotalOrder ==
    LET groups == GroupsOf(aggIn)
    IN  /\ \A i, j \in 1..Len(groups) :
              i # j => (GroupLess(groups[i], groups[j]) # GroupLess(groups[j], groups[i]))
        /\ \A i \in 1..Len(groups) : ~GroupLess(groups[i], groups[i])
        /\ Cardinality(SortedOrders(groups)) = 1

\* two groups equal in count, lastSeen, namespace and resource
C12_Witness ==
    LET groups == GroupsOf(aggIn)
    IN  /\ Len(groups) = 2
        /\ groups[1].count = groups[2].count
        /\ groups[1].lastSeen = groups[2].lastSeen
        /\ groups[1].namespace = groups[2].namespace
        /\ groups[1].resource = groups[2].resource
        /\ groups[1].reason # groups[2].reason

\* ---- the watch-error banner (Spec) ----
\* the goroutine of generation g ends in the set-up of its subscription
FailsInSetup(g) == tasks[g].pc = "setup" /\ tasks'[g].pc = "done"

\* the update loop runs the error closure of the current generation
RunsCurrentError ==
    /\ RunsQueued
    /\ Head(queue).kind = "error"
    /\ Head(queue).generation = watchGeneration

\* C14: a failure of the current subscription task that is not due to its
\* cancellation reaches the update loop, which puts a watch-error banner
\* into the table title and leaves the log, the visible lines, the row table
\* and the table rows as they are; the application keeps running
C14_WatchErrorBanner ==
    [][ /\ \A g \in 1..MaxGeneration :
              (FailsInSetup(g) /\ ~tasks[g].cancelled) =>
                  /\ Len(queue') = Len(queue) + 1
                  /\ queue'[Len(queue')].kind = "error"
                  /\ queue'[Len(queue')].generation = g
        /\ RunsCurrentError =>
              /\ tableTitle'.banner # <<>>
              /\ tableTitle'.banner[1] = "watch error"
              /\ UNCHANGED <<allEvents, visibleEvents, rowToVisibleEvent, tableRows>>
              /\ running' /\ running
      ]_vars

\* the first subscription failed and its banner was shown; the scope was set
\* again and an event of the new subscription is displayed
C14_Witness ==
    /\ lastOp.op = "ingest"
    /\ watchGeneration = 2
    /\ tasks[1].pc = "done"
    /\ tableTitle.banner # <<>>
    /\ Len(visibleEvents) = 1
    /\ running

\* C15: the banner is persistent: once the update loop has shown it for the
\* current generation, it is still in the table title after the next step,
\* whatever view operation that is, unless that step changes the scope
C15_BannerPersistent ==
    [][ ( /\ lastOp.op = "watchError"
          /\ lastOp.generation = watchGeneration
          /\ watchGeneration' = watchGeneration )
        => tableTitle'.banner = tableTitle.banner
      ]_vars

\* ---- the recent namespaces (RecentSpec) ----
\* the scopes updateNamespace was called with, oldest first: the task of
\* generation g was started with the g-th of them
ScopeHistory == [g \in 1..watchGeneration |-> tasks[g].ns]

\* the named scopes selected so far, and when each was selected last
SelectedScopes == {ScopeHistory[g] : g \in 1..watchGeneration} \ {NamespaceAll}

LastSelected(ns) == SetMax({g \in 1..watchGeneration : ScopeHistory[g] = ns})

\* C16: recentNamespaces has at most 3 entries, no duplicates and never the
\* all-namespaces scope; it lists the named scopes selected so far, the most
\* recently selected first, the least recently selected ones left out; a
\* named current scope is its first entry
C16_RecentScopes ==
    LET n == Len(recentNamespaces)
        listed == {recentNamespaces[i] : i \in 1..n}
    IN  /\ n <= 3
        /\ n = IF Cardinality(SelectedScopes) < 3 THEN Cardinality(SelectedScopes) ELSE 3
        /\ \A i, j \in 1..n : i # j => recentNamespaces[i] # recentNamespaces[j]
        /\ NamespaceAll \notin listed
        /\ listed \subseteq SelectedScopes
        /\ \A i, j \in 1..n :
              i < j => LastSelected(recentNamespaces[i]) > LastSelected(recentNamespaces[j])
        /\ \A ns \in SelectedScopes \ listed :
              \A i \in 1..n : LastSelected(ns) < LastSelected(recentNamespaces[i])
        /\ namespace # NamespaceAll => (n > 0 /\ recentNamespaces[1] = namespace)

\* four different named scopes were selected one after the other: the last
\* three are listed, newest first, and the first one is no longer listed
C16_Witness ==
    /\ watchGeneration = 4
    /\ Cardinality(SelectedScopes) = 4
    /\ recentNamespaces = <<ScopeHistory[4], ScopeHistory[3], ScopeHistory[2]>>
    /\ \A i \in 1..Len(recentNamespaces) : recentNamespaces[i] # ScopeHistory[1]

\* ---- properties of filterEvents (FilterSpec) ----
\* f occurs in line as a run of equal characters, letter case included
Occurs(f, line) ==
    \E k \in 0..Len(line) :
        /\ k + Len(f) <= Len(line)
        /\ \A j \in 1..Len(f) : line[k + j] = f[j]

\* C13: filterEvents(events, f) returns exactly the elements of events that
\* contain f as a case-sensitive contiguous substring, in their order and
\* multiplicity; an empty f keeps every element
C13_FilterSubstring ==
    /\ fltOut = SelectSeq(fltIn, LAMBDA line : Occurs(fltText, line))
    /\ fltText = <<>> => fltOut = fltIn

\* filter "Warn" over a Warning row, a Normal row and a row holding "warn":
\* exactly the first row is returned
C13_Witness ==
    /\ fltText = <<"W", "a", "r", "n">>
    /\ Len(fltIn) = 3
    /\ Field(fltIn[1], 3) = Warning
    /\ Field(fltIn[2], 3) = Normal
    /\ Occurs(<<"w", "a", "r", "n">>, fltIn[3])
    /\ fltOut = <<fltIn[1]>>

\* ---- properties of fuzzyMatchScore (FuzzySpec) ----
\* the same letter in the other case, any other character unchanged
SwapChar(c) ==
    IF \E i \in 1..26 : UpperLetters[i] = c
    THEN LowerLetters[CHOOSE i \in 1..26 : UpperLetters[i] = c]
    ELSE IF \E i \in 1..26 : LowerLetters[i] = c
    THEN UpperLetters[CHOOSE i \in 1..26 : LowerLetters[i] = c]
    ELSE c

SwapCase(s) == [i \in 1..Len(s) |-> SwapChar(s[i])]

SameLetter(c, d) == c = d \/ SwapChar(c) = d

\* q occurs in t as a run of characters, letter case ignored
FoldedSubstring(q, t) ==
    \E k \in 0..Len(t) :
        /\ k + Len(q) <= Len(t)
        /\ \A j \in 1..Len(q) : SameLetter(t[k + j], q[j])

\* q can be obtained from t by deleting characters, letter case ignored
RECURSIVE FoldedSubsequenceFrom(_, _, _)
FoldedSubsequenceFrom(q, t, from) ==
    \/ q = <<>>
    \/ \E k \in from..Len(t) :
          /\ SameLetter(Head(q), t[k])
          /\ FoldedSubsequenceFrom(Tail(q), t, k + 1)

FoldedSubsequence(q, t) == FoldedSubsequenceFrom(q, t, 1)

\* the query is a substring of fzA and only a scattered subsequence of fzB
SubstringAgainstSubsequence ==
    /\ TrimSpace(fzQuery) # <<>>
    /\ FoldedSubstring(TrimSpace(fzQuery), TrimSpace(fzA))
    /\ ~FoldedSubstring(TrimSpace(fzQuery), TrimSpace(fzB))
    /\ FoldedSubsequence(TrimSpace(fzQuery), TrimSpace(fzB))

\* C17: a candidate that contains the query as a substring scores higher
\* than a candidate that contains it only as a scattered subsequence
C17_SubstringOutranks ==
    SubstringAgainstSubsequence => fzResA.score > fzResB.score

\* the two applications of fuzzyMatchScore a state records
FzApplications == {<<fzA, fzResA>>, <<fzB, fzResB>>}

\* C18: for a non-empty query the match succeeds exactly when the trimmed query
\* is a subsequence of the trimmed candidate, letter case ignored; a failed
\* match is (0, false); changing the letter case of the query or of the
\* candidate changes neither the score nor the outcome
C18_SubsequenceMatch ==
    \A ap \in FzApplications :
        /\ TrimSpace(fzQuery) # <<>> =>
              /\ ap[2].ok <=> FoldedSubsequence(TrimSpace(fzQuery), TrimSpace(ap[1]))
              /\ ~ap[2].ok => ap[2] = [score |-> 0, ok |-> FALSE]
        /\ fuzzyMatchScore(SwapCase(fzQuery), ap[1]) = ap[2]
        /\ fuzzyMatchScore(fzQuery, SwapCase(ap[1])) = ap[2]

\* query "Pd" against "Pod/web-1" matches as a scattered subsequence, against
\* "web" it does not match
C18_Witness ==
    /\ fzQuery = <<"P", "d">>
    /\ fzA = <<"P", "o", "d", "/", "w", "e", "b", "-", "1">>
    /\ fzResA.ok
    /\ ~FoldedSubstring(fzQuery, fzA)
    /\ fzB = <<"w", "e", "b">>
    /\ fzResB = [score |-> 0, ok |-> FALSE]

\* C19: an empty or blank query gives (1, true) for every candidate; every
\* match scores at least 1 and every failed match scores 0
C19_ScoreFloor ==
    \A ap \in FzApplications :
        /\ TrimSpace(fzQuery) = <<>> => ap[2] = [score |-> 1, ok |-> TRUE]
        /\ ap[2].ok => ap[2].score >= 1
        /\ ~ap[2].ok => ap[2].score = 0

\* a blank query against "Pod/web-1" and against the empty candidate
C19_Witness ==
    /\ fzQuery = <<" ">>
    /\ fzA = <<"P", "o", "d", "/", "w", "e", "b", "-", "1">>
    /\ fzB = <<>>
    /\ fzResA = [score |-> 1, ok |-> TRUE]
    /\ fzResB = [score |-> 1, ok |-> TRUE]

\* ---- properties of buildCommandPaletteResults (PaletteSpec) ----
ShownCommands == {palResults[k].Command : k \in 1..Len(palResults)} \ {0}

ShownJumps == {palResults[k].Jump : k \in 1..Len(palResults)} \ {0}

CandidateCount == Len(palCommands) + Len(palJumps)

\* C20 as claimed: with an empty query the result holds every command and
\* every jump candidate handed over
C20_FullList_Claimed ==
    TrimSpace(palQuery) = <<>> =>
        /\ ShownCommands = 1..Len(palCommands)
        /\ ShownJumps = 1..Len(palJumps)

\* C20: with an empty query the result holds every command and every jump
\* candidate when there are at most 20 of them; otherwise it holds the 20
\* highest ranked: all commands and the jump candidates of the largest rows
C20_FullList ==
    TrimSpace(palQuery) = <<>> =>
        /\ Len(palResults) = IF CandidateCount > EmptyQueryLimit
                             THEN EmptyQueryLimit ELSE CandidateCount
        /\ Cardinality(ShownCommands) + Cardinality(ShownJumps) = Len(palResults)
        /\ ShownCommands = 1..Len(palCommands)
        /\ ShownJumps \subseteq 1..Len(palJumps)
        /\ \A i \in ShownJumps : \A j \in (1..Len(palJumps)) \ ShownJumps :
              palJumps[i].Row > palJumps[j].Row

\* the 8 registered commands and 13 rows with an empty query: 20 results,
\* the jump candidate of row 1 is left out
C20_Witness ==
    /\ palQuery = <<>>
    /\ palCommands = RegisteredCommands
    /\ Len(palJumps) = 13
    /\ Len(palResults) = EmptyQueryLimit
    /\ ShownJumps = 2..13

\* ---- the jump candidates (Spec) ----
\* the jump candidates openCommandPalette would hand to the palette now
JumpsNow == buildJumpTargets(rowToVisibleEvent, visibleEvents)

\* the table rows (1-based, the header being row 0) that show the event
RowsOfEvent(eventIdx) == {r \in 1..Len(rowToVisibleEvent) : rowToVisibleEvent[r] = eventIdx}

RenderedEvents == {eventIdx \in 0..(Len(visibleEvents) - 1) : RowsOfEvent(eventIdx) # {}}

\* C24: there is exactly one jump candidate for each visible event that has
\* a rendered row, and its Row is the smallest row mapped to that event
C24_OneJumpPerEvent ==
    /\ Len(JumpsNow) = Cardinality(RenderedEvents)
    /\ \A eventIdx \in RenderedEvents :
          Cardinality({k \in 1..Len(JumpsNow) :
                          JumpsNow[k].Row \in RowsOfEvent(eventIdx)}) = 1
    /\ \A k \in 1..Len(JumpsNow) :
          \E eventIdx \in RenderedEvents :
              /\ JumpsNow[k].Row = SetMin(RowsOfEvent(eventIdx))
              /\ JumpsNow[k].Search = TrimSpace(visibleEvents[eventIdx + 1])

\* wrapping shows two events, the second one on several rows: two candidates
C24_Witness ==
    /\ wrapMessages
    /\ Len(visibleEvents) = 2
    /\ Cardinality(RowsOfEvent(1)) > 1
    /\ Len(JumpsNow) = 2
    /\ JumpsNow[1].Row = SetMin(RowsOfEvent(1))
    /\ JumpsNow[2].Row = 1

\* ---- properties of the command palette (ModalSpec) ----
\* the first run of non-space characters of the text, where there is one
HasToken(text) == \E i \in 1..Len(text) : ~IsSpace(text[i])

TokenStart(text) == SetMin({i \in 1..Len(text) : ~IsSpace(text[i])})

TokenEnd(text) ==
    SetMax({j \in TokenStart(text)..Len(text) :
               \A k \in TokenStart(text)..j : ~IsSpace(text[k])})

FirstToken(text) == SubSeq(text, TokenStart(text), TokenEnd(text))

\* what follows the first token, without the white space around it
Remainder(text) ==
    LET rest == {i \in (TokenEnd(text) + 1)..Len(text) : ~IsSpace(text[i])}
    IN  IF rest = {} THEN <<>> ELSE SubSeq(text, SetMin(rest), SetMax(rest))

SameWord(a, b) == Len(a) = Len(b) /\ \A i \in 1..Len(a) : SameLetter(a[i], b[i])

NamesOf(command) ==
    {command.Name} \cup {command.Aliases[a] : a \in 1..Len(command.Aliases)}

\* the registered commands a name or alias of which is the first token
Named(text) ==
    IF HasToken(text)
    THEN {i \in 1..Len(RegisteredCommands) :
             \E w \in NamesOf(RegisteredCommands[i]) : SameWord(w, FirstToken(text))}
    ELSE {}

\* the step is Enter pressed in the open palette
Confirms == cmOpen /\ ~cmOpen' /\ cmDone'.kind # "escaped"

\* C21: when the first token of the input equals, letter case ignored, a
\* name or alias of a registered command, Enter runs exactly that command
\* with the trimmed rest of the line as its argument, whatever the results
\* and the selection are; when it equals none, no command is run directly
C21_DirectDispatch ==
    [][Confirms =>
          IF Named(cmText) # {}
          THEN /\ cmDone'.kind = "command"
               /\ cmDone'.direct
               /\ Named(cmText) = {cmDone'.Command}
               /\ cmDone'.arg = Remainder(cmText)
          ELSE ~cmDone'.direct]_vars

\* "ns n" confirmed while the second result, the command all, is selected:
\* the command ns was run with "n" as its argument
C21_Witness ==
    /\ ~cmOpen
    /\ cmText = <<"n", "s", " ", "n">>
    /\ cmSelection = 1
    /\ cmResults[2].Command = 2
    /\ cmDone = RanCommand(1, <<"n">>, TRUE)

\* the score the ranking gives a candidate for the text of the palette
CommandRank(i) == fuzzyMatchScore(cmText, MatchText(RegisteredCommands[i]))

JumpRank(j) == fuzzyMatchScore(cmText, JumpSearch(cmJumps[j]))

\* entry a of the results stands before entry b in the claimed order
RankedBefore(a, b) ==
    \/ a.Score > b.Score
    \/ /\ a.Score = b.Score
       /\ \/ a.Command # 0 /\ b.Jump # 0
          \/ /\ a.Command # 0 /\ b.Command # 0
             /\ StrLess(RegisteredCommands[a.Command].Name,
                        RegisteredCommands[b.Command].Name)
          \/ /\ a.Jump # 0 /\ b.Jump # 0
             /\ cmJumps[a.Jump].Row > cmJumps[b.Jump].Row

\* the results are the matching commands and rows, each once, with the
\* claimed scores, in the claimed order
RankedNow ==
    /\ \A k \in 1..Len(cmResults) :
          \/ /\ cmResults[k].Command \in 1..Len(RegisteredCommands)
             /\ cmResults[k].Jump = 0
             /\ CommandRank(cmResults[k].Command).ok
             /\ cmResults[k].Score = CommandRank(cmResults[k].Command).score + 50
          \/ /\ cmResults[k].Jump \in 1..Len(cmJumps)
             /\ cmResults[k].Command = 0
             /\ JumpRank(cmResults[k].Jump).ok
             /\ cmResults[k].Score = JumpRank(cmResults[k].Jump).score
    /\ \A i \in 1..Len(RegisteredCommands) :
          CommandRank(i).ok =>
              Cardinality({k \in 1..Len(cmResults) : cmResults[k].Command = i}) = 1
    /\ \A j \in 1..Len(cmJumps) :
          JumpRank(j).ok =>
              Cardinality({k \in 1..Len(cmResults) : cmResults[k].Jump = j}) = 1
    /\ \A k, l \in 1..Len(cmResults) :
          k < l => RankedBefore(cmResults[k], cmResults[l])

\* the results of the open palette are ranked
Ranked == cmOpen => RankedNow

\* what running the entry does
RunsEntry(entry, done) ==
    IF entry.Command # 0
    THEN done.kind = "command" /\ done.Command = entry.Command
    ELSE done.kind = "jump" /\ done.Row = cmJumps[entry.Jump].Row

\* Enter pressed with the selection where a change of the text left it
ConfirmsFirst == Confirms /\ cmSelection = 0 /\ cmResults # <<>>

\* C22 as claimed: the results are ranked as described, a change of the
\* text puts the selection on the first entry, and Enter with the selection
\* there runs the first entry
C22_Ranking_Claimed ==
    /\ []Ranked
    /\ [][cmText' # cmText => cmSelection' = 0]_vars
    /\ [][ConfirmsFirst => RunsEntry(cmResults[1], cmDone')]_vars

\* C22: the results are the matching commands and the matching rows in one
\* list by descending score, a command scoring its fuzzy score plus 50, on
\* equal scores commands before rows, commands by ascending name, rows by
\* descending row; a change of the text puts the selection on the first
\* entry; Enter with the selection there runs the first entry unless the
\* first token of the text names a command, which is run instead
C22_Ranking ==
    /\ []Ranked
    /\ [][cmText' # cmText => cmSelection' = 0]_vars
    /\ [][ConfirmsFirst =>
             IF Named(cmText) = {}
             THEN RunsEntry(cmResults[1], cmDone')
             ELSE cmDone'.kind = "command" /\ Named(cmText) = {cmDone'.Command}]_vars

\* "n" confirmed after Down and a further character put the selection back
\* on the first of several entries, two rows of equal score among them
C22_Witness ==
    /\ ~cmOpen
    /\ Named(cmText) = {}
    /\ cmText # <<>>
    /\ cmSelection = 0
    /\ cmDone.kind = "command"
    /\ cmDone.Command = cmResults[1].Command
    /\ \E k, l \in 1..Len(cmResults) :
          /\ k < l
          /\ cmResults[k].Jump # 0
          /\ cmResults[l].Jump # 0
          /\ cmResults[k].Score = cmResults[l].Score

\* ---- the jump command (JumpSpec) ----
\* the step runs the jump command
JumpStep == inputs' = inputs + 1 /\ lastOp'.op = "jump"

MatchOf(query, eventIdx) == fuzzyMatchScore(query, visibleEvents[eventIdx + 1])

\* the shown events the query matches
Matching(query) ==
    IF query = <<>> THEN {}
    ELSE {eventIdx \in RenderedEvents : MatchOf(query, eventIdx).ok}

BestMatching(query) ==
    {eventIdx \in Matching(query) :
        \A other \in Matching(query) :
            MatchOf(query, other).score <= MatchOf(query, eventIdx).score}

\* the first row of the best matching event, the later one of several
BestRow(query) == SetMax({SetMin(RowsOfEvent(eventIdx)) : eventIdx \in BestMatching(query)})

\* C23: the jump command selects the first row of the shown event with the
\* highest score for the trimmed query, the one with the larger row among
\* several of that score, whatever order the events are visited in; with
\* an empty query or no matching event it leaves the selection, the log and
\* the rows as they are and puts a no-match note into the title
C23_JumpToBest ==
    [][JumpStep =>
          /\ UNCHANGED <<allEvents, visibleEvents, rowToVisibleEvent, tableRows>>
          /\ IF Matching(TrimSpace(lastOp'.arg)) # {}
             THEN /\ selectedRow' = BestRow(TrimSpace(lastOp'.arg))
                  /\ tableTitle' = tableTitle
             ELSE /\ selectedRow' = selectedRow
                  /\ tableTitle' =
                        [Title(filterText, autoScroll, aggregateMode, wrapMessages)
                            EXCEPT !.banner = <<"no match for", TrimSpace(lastOp'.arg)>>]]_vars

\* three rows are shown, the last one selected; the jump to "P/x" selected
\* row 1, the only row of that event
C23_Witness ==
    /\ lastOp.op = "jump"
    /\ lastOp.arg = <<"P", "/", "x">>
    /\ Len(visibleEvents) = 2
    /\ BestMatching(lastOp.arg) = {0}
    /\ selectedRow = 1

\* ---- properties of wrapLine and wrapMessage (WrapSpec) ----
\* the bytes are whole characters: no encoding of a character is cut
WholeChars(bytes) ==
    \A i \in 1..Len(bytes) :
        /\ bytes[i] = "E2" => i + 2 <= Len(bytes) /\ bytes[i + 1] = "80" /\ bytes[i + 2] = "A2"
        /\ bytes[i] = "80" => i > 1 /\ bytes[i - 1] = "E2"
        /\ bytes[i] = "A2" => i > 1 /\ bytes[i - 1] = "80"

RECURSIVE Flatten(_)
Flatten(seqs) == IF seqs = <<>> THEN <<>> ELSE Head(seqs) \o Flatten(Tail(seqs))

\* the words of the text and the words of the lines, line after line
WordsIn == Fields(wrText)

WordsOut == Flatten([k \in 1..Len(wrLines) |-> Fields(wrLines[k])])

\* every line is text of at most width characters
LinesFit ==
    \A lines \in {wrLines, wrMessage} : \A k \in 1..Len(lines) :
        WholeChars(lines[k]) /\ CharLen(lines[k]) <= wrWidth

\* when every word fits on a line, the lines hold the words and a line ends
\* only where the next word, after one blank, would pass the width
PackedGreedily ==
    (\A w \in 1..Len(WordsIn) : CharLen(WordsIn[w]) <= wrWidth) =>
        /\ WordsOut = WordsIn
        /\ \A k \in 1..(Len(wrLines) - 1) :
              CharLen(wrLines[k]) + 1 + CharLen(Fields(wrLines[k + 1])[1]) > wrWidth

\* a text that is one word of more than width characters comes out in
\* pieces of width characters each and a last piece that is not empty
HardSplitExact ==
    (Len(WordsIn) = 1 /\ CharLen(WordsIn[1]) > wrWidth) =>
        /\ Flatten(wrLines) = WordsIn[1]
        /\ \A k \in 1..(Len(wrLines) - 1) : CharLen(wrLines[k]) = wrWidth
        /\ wrLines[Len(wrLines)] # <<>>

\* C25: for a width of 1 or more every line of wrapLine and of wrapMessage
\* has at most width characters, words are packed greedily, and a word of
\* more than width characters is split into pieces of exactly width
\* characters and a remainder that is not empty
C25_WrapBound ==
    wrWidth >= 1 => LinesFit /\ PackedGreedily /\ HardSplitExact

\* the number of bytes in the first k of the sequences
LenUpTo(seqs, k) == Len(Flatten(SubSeq(seqs, 1, k)))

\* where, counted in bytes that are not blank, the words of the text end,
\* the words of the lines end, and the lines end
WordEnds == {LenUpTo(WordsIn, k) : k \in 1..Len(WordsIn)}

PieceEnds == {LenUpTo(WordsOut, k) : k \in 1..Len(WordsOut)}

LineBytes == [k \in 1..Len(wrLines) |-> Flatten(Fields(wrLines[k]))]

\* the lines that end inside a word of the text
CutLines == {k \in 1..Len(wrLines) : LenUpTo(LineBytes, k) \notin WordEnds \cup {0}}

\* C26: for a width of 1 or more the lines of wrapLine, joined with one
\* blank, or with nothing after a line that is a piece of a split word,
\* give back the words of the text in their order: the lines hold the bytes
\* of the words in order, every end of a word is the end of a word on a
\* line, and a word is cut only at the end of a line that is one full piece
C26_RoundTrip ==
    wrWidth >= 1 =>
        /\ Flatten(WordsOut) = Flatten(WordsIn)
        /\ WordEnds \subseteq PieceEnds
        /\ PieceEnds \ WordEnds \subseteq {LenUpTo(LineBytes, k) : k \in CutLines}
        /\ \A k \in CutLines :
              /\ k < Len(wrLines)
              /\ Len(wrLines[k]) = wrWidth
              /\ Len(Fields(wrLines[k])) = 1

\* a bullet and "a" in one word, then "b", at width 2: the word is cut
\* twice, its rest fills a line, and "b" stands on the last line
C26_Witness ==
    /\ wrWidth = 2
    /\ wrText = BulletBytes \o <<"a", " ", "b">>
    /\ wrLines = << <<"E2", "80">>, <<"A2", "a">>, <<"b">> >>

\* ---- properties of messageColumnWidth (WidthSpec) ----
\* the weight of a column in the share of the width
Weight(c) == IF c = "Resource" THEN 2 ELSE 1

EnabledColumns == {c \in ColumnNames : mwOpts[c]}

RECURSIVE WeightSum(_)
WeightSum(cols) ==
    IF cols = {} THEN 0
    ELSE LET c == CHOOSE x \in cols : TRUE IN Weight(c) + WeightSum(cols \ {c})

\* the largest integer not above a / b, for b > 0
FloorDiv(a, b) == IF a >= 0 THEN a \div b ELSE 0 - ((b - 1 - a) \div b)

\* 5 * (W - 3 * (n - 1)) / S, n counting the message column, S its weight 5
\* and the weights of the enabled columns
Share ==
    FloorDiv(5 * (mwWidth - 3 * Cardinality(EnabledColumns)), 5 + WeightSum(EnabledColumns))

\* C27: for a table width above 0 and any choice of columns
\* messageColumnWidth returns the larger of 20 and the message column's
\* share of the width left after the separators; for no input does it
\* return less than 20
C27_MessageWidth ==
    /\ mwWidth > 0 => mwOut = IF Share > 20 THEN Share ELSE 20
    /\ mwOut >= 20

\* 60 columns wide with the timestamp and the resource shown: 54 are left
\* after two separators, of which the message gets 5 parts in 8
C27_Witness ==
    /\ mwWidth = 60
    /\ EnabledColumns = {"Timestamp", "Resource"}
    /\ mwOut = 33

\* ---- the drill-down view (DetailsSpec) ----
\* the step is Esc or q pressed in the drill-down view while the result of
\* its fetch has not been applied
Dismisses ==
    /\ shown # 0
    /\ details[shown].fetch \in {"running", "queued"}
    /\ inputs' = inputs + 1
    /\ lastOp'.op = "detailsKey"

\* the step runs the closure of the fetch of a view dismissed before
LateResult ==
    /\ queue # <<>>
    /\ Head(queue).kind = "detail"
    /\ queue' = Tail(queue)
    /\ shown # Head(queue).detail

\* C28: Esc or q pressed in the drill-down view before the result of its
\* fetch was applied closes the view and cancels the context of the fetch,
\* and the closure of that fetch, when the update loop runs it, changes
\* neither the text of the view nor anything else the user sees
C28_DismissDiscards ==
    /\ [][Dismisses => /\ details'[shown].closed
                       /\ details'[shown].cancelled
                       /\ shown' = 0]_vars
    /\ [][LateResult =>
             /\ details'[Head(queue).detail].text = details[Head(queue).detail].text
             /\ UNCHANGED <<filterText, allEvents, visibleEvents, rowToVisibleEvent,
                            tableRows, tableTitle, selectedRow, focus, shown>>]_vars

\* ---- cooperative cancellation (LiveSpec) ----
\* the task of generation g was started and a later scope change took place
Superseded(g) == tasks[g].pc # "none" /\ g < watchGeneration

\* C29: a task that a scope change superseded may still hand over results,
\* which the update loop discards, and in the end it terminates, the update
\* loop running the closures queued
C29_Cooperative ==
    /\ \A g \in 1..MaxLiveGeneration : Superseded(g) ~> (tasks[g].pc = "done")
    /\ [][\A g \in 1..MaxLiveGeneration :
             (Superseded(g) /\ RunsQueued /\ Head(queue).generation = g) =>
                 UNCHANGED <<allEvents, visibleEvents, rowToVisibleEvent, tableRows>>]_vars

\* the first task received an event after the scope was changed, handed it
\* over and returned; the update loop has just discarded the event
C29_Witness ==
    /\ watchGeneration = 2
    /\ tasks[1].cancelled
    /\ tasks[1].pc = "done"
    /\ Len(delivered[1]) = 1
    /\ lastOp = [op |-> "staleEvent", generation |-> 1]
    /\ allEvents = <<>>

\* ---- the single writer (Spec) ----
\* what the user sees and what the closures of the update loop work on
viewState ==
    <<allEvents, visibleEvents, rowToVisibleEvent, filterText, filterInput, namespace,
      autoScroll, columns, aggregateMode, wrapMessages, watchGeneration, watchCancel,
      recentNamespaces, tableRows, tableTitle, selectedRow, focus, filterVisible>>

\* the step is one of the goroutine of generation g
TaskStepOf(g) ==
    /\ tasks[g].pc # "none"
    /\ \/ tasks'[g].pc # tasks[g].pc
       \/ delivered'[g] # delivered[g]

\* the step hands one closure to the update loop
HandsOver == Len(queue') = Len(queue) + 1 /\ SubSeq(queue', 1, Len(queue)) = queue

\* C30: a step of a subscription goroutine leaves the view state as it is;
\* all it does to the update loop is to append one closure to its queue,
\* which holds the goroutine's own generation and not the current one; the
\* view state changes only in steps of the update loop, which runs the
\* closures and handles the inputs, never in a step of a goroutine
C30_SingleWriter ==
    /\ [][\A g \in 1..MaxGeneration :
             TaskStepOf(g) =>
                 /\ UNCHANGED viewState
                 /\ queue' = queue \/ (HandsOver /\ queue'[Len(queue')].generation = g)]_vars
    /\ [][viewState' # viewState =>
             /\ lastOp'.op # "task"
             /\ \A g \in 1..MaxGeneration : ~TaskStepOf(g)]_vars

\* the first task, superseded, has handed over an event tagged 1 while the
\* current generation is 2; the view is as the scope change left it
C30_Witness ==
    /\ watchGeneration = 2
    /\ tasks[1].cancelled
    /\ lastOp.op = "task"
    /\ queue # <<>>
    /\ queue[Len(queue)].generation = 1
    /\ delivered[1] # <<>>
    /\ allEvents = <<>>
    /\ Len(tableRows) = 1

\* ---- the rows of wrapped messages (Spec, LayoutSpec) ----
\* the lines of the message of the i-th visible event at the message-column
\* width the table has now
LinesNow(i) ==
    wrapMessage(Field(visibleEvents[i], 6), messageColumnWidth(tableWidth, currentColumns))

\* the number of rows of the visible events before the i-th
RECURSIVE RowsBefore(_)
RowsBefore(i) == IF i <= 1 THEN 0 ELSE RowsBefore(i - 1) + Len(LinesNow(i - 1))

\* the cells of a row but the last, the message cell
OtherCells(row) == SubSeq(row, 1, Len(row) - 1)

MessageCell(row) == row[Len(row)]

\* the n-th row of the i-th visible event: the table puts the header first
RowOf(i, n) == tableRows[RowsBefore(i) + n + 1]

WrappedBlock(i) ==
    \A n \in 1..Len(LinesNow(i)) :
        /\ rowToVisibleEvent[RowsBefore(i) + n] = i - 1
        /\ MessageCell(RowOf(i, n)).text = LinesNow(i)[n]
        /\ n = 1 =>
              OtherCells(RowOf(i, n)) =
                 OtherCells(renderRow(SplitN(visibleEvents[i], Sep, SplitParts),
                                      currentColumns))
        /\ n > 1 => \A c \in 1..Len(RowOf(i, n)) - 1 : RowOf(i, n)[c].text = <<>>

WrappedLayout ==
    /\ Len(rowToVisibleEvent) = RowsBefore(Len(visibleEvents) + 1)
    /\ Len(tableRows) = Len(rowToVisibleEvent) + 1
    /\ \A i \in 1..Len(visibleEvents) : Len(LinesNow(i)) >= 1 /\ WrappedBlock(i)
    /\ \A r \in 1..Len(rowToVisibleEvent) - 1 :
          rowToVisibleEvent[r] <= rowToVisibleEvent[r + 1]

\* C31: with wrap enabled every visible event takes as many consecutive rows
\* as wrapMessage returns lines for its message at the current width of the
\* message column: the first row has the column values and the first line,
\* a continuation row has blank cells and its line, all rows of the event
\* refer to the event, and rowToVisibleEvent is non-decreasing
C31_WrappedRows == wrapMessages => WrappedLayout

\* ---- the selection in aggregate mode (Spec) ----
\* the step taken last turned aggregate mode on
EnteredAggregate == lastOp.op = "toggleAggregate" /\ aggregateMode

\* the step taken last ingested an event in aggregate mode
IngestedAggregate == lastOp.op = "ingest" /\ aggregateMode

\* row 1 is selected and shows the first of the displayed groups
FirstGroupSelected ==
    /\ selectedRow = 1
    /\ rowToVisibleEvent[1] = 0
    /\ visibleEvents = filterEvents(aggregateEvents(allEvents), filterText)

\* C32 as claimed: row 1 is selected after the toggle into aggregate mode
\* when a group is displayed, and after every ingestion in aggregate mode
C32_RowOne_Claimed ==
    /\ EnteredAggregate /\ visibleEvents # <<>> => FirstGroupSelected
    /\ IngestedAggregate => selectedRow = 1

\* C32: row 1, the first displayed group, is selected after the toggle into
\* aggregate mode and after every ingestion in aggregate mode, whenever a
\* group is displayed; with no group displayed the selection stays as it was
C32_RowOne ==
    /\ EnteredAggregate /\ visibleEvents # <<>> => FirstGroupSelected
    /\ IngestedAggregate /\ visibleEvents # <<>> => FirstGroupSelected

\* an event was ingested in aggregate mode with two groups displayed
C32_Witness ==
    /\ IngestedAggregate
    /\ Len(visibleEvents) = 2
    /\ selectedRow = 1
    /\ Len(tableRows) > 2

\* ---- events processed while autoscroll is off (DropSpec) ----
\* the update loop runs the ingest closure of an event of the current
\* generation while autoScroll is off
DropsEvent ==
    /\ running /\ queue # <<>> /\ queue' = Tail(queue)
    /\ Head(queue).kind = "event"
    /\ Head(queue).generation = watchGeneration
    /\ ~autoScroll

\* the step taken last dropped event e of the stream of generation g
Dropped(g, e) ==
    lastOp.op = "dropEvent" /\ lastOp.generation = g /\ lastOp.event = e

\* the stream of generation g delivered e once
DeliveredOnce(g, e) ==
    Cardinality({i \in 1..Len(delivered[g]) : delivered[g][i] = e}) = 1

\* the line of e is neither in the log nor displayed
Absent(e) ==
    /\ FormatEventLine(e) \notin Range(allEvents)
    /\ FormatEventLine(e) \notin Range(visibleEvents)

\* C33: an event of the current generation processed while autoScroll is off
\* changes neither the log nor the view, and is absent from both ever after
\* as long as its subscription is the current one and does not deliver it
\* again, whatever is toggled or refreshed in between
C33_DroppedForGood ==
    /\ [][DropsEvent => UNCHANGED <<viewState, allOrigin>>]_vars
    /\ \A g \in 1..MaxGeneration : \A e \in ClusterEvents :
          [](Dropped(g, e) =>
               [](watchGeneration = g /\ DeliveredOnce(g, e) => Absent(e)))

\* an event was dropped, autoscroll is on again and the table was refreshed
\* since: the log is still empty
C33_Witness ==
    /\ autoScroll
    /\ lastOp.op = "toggleAutoScroll"
    /\ watchGeneration = 1
    /\ delivered[1] # <<>>
    /\ queue = <<>>
    /\ allEvents = <<>>
    /\ tableTitle.autoScroll

\* ---- toggling autoscroll (Spec) ----
\* the view state but the autoScroll flag and the table title
BesideAutoScroll ==
    <<allEvents, visibleEvents, rowToVisibleEvent, tableRows, filterText, filterInput,
      namespace, columns, aggregateMode, wrapMessages, watchGeneration, watchCancel,
      recentNamespaces, selectedRow, focus, filterVisible, allOrigin, queue, tasks>>

\* C34: a step that toggles autoscroll changes the autoScroll flag and the
\* table title, which shows the new flag, and nothing else: the log, the
\* visible lines, the row map, the table rows and the applied filter text
\* are the same before and after
C34_ToggleAutoScrollFrame ==
    [][autoScroll' # autoScroll =>
          /\ UNCHANGED BesideAutoScroll
          /\ tableTitle' = Title(filterText, autoScroll', aggregateMode, wrapMessages)
      ]_vars

\* autoscroll was turned off under an applied filter with lines in the log
C34_Witness ==
    /\ lastOp.op = "toggleAutoScroll"
    /\ ~autoScroll
    /\ filterText # <<>>
    /\ filterInput = filterText
    /\ allEvents # <<>>
    /\ ~tableTitle.autoScroll

\* ---- the contexts of the subscription tasks (QuitSpec) ----
\* the task of generation g was started and its context is not cancelled
HoldsLiveContext(g) == tasks[g].pc # "none" /\ ~tasks[g].cancelled

\* C35: a subscription task whose context is not cancelled is the task of
\* the current watchGeneration, so there is at most one; once the
\* application was quit there is none
C35_OneLiveContext ==
    /\ \A g \in 1..MaxGeneration : HoldsLiveContext(g) => g = watchGeneration
    /\ Cardinality({g \in 1..MaxGeneration : HoldsLiveContext(g)}) <= 1
    /\ ~running => \A g \in 1..MaxGeneration : ~HoldsLiveContext(g)

\* the scope was changed and the application quit from the filter field:
\* two tasks were started and are still in their loops
C35_Witness ==
    /\ watchGeneration = 2
    /\ ~running /\ focus = "filter"
    /\ tasks[1].pc = "loop" /\ tasks[2].pc = "loop"
    /\ tasks[1].cancelled /\ tasks[2].cancelled

\* ---- the end of a stream and objects that are no events (StreamSpec) ----
\* the stream of generation g, not cancelled, ends in this step
EndsStream(g) ==
    tasks[g].pc = "loop" /\ tasks'[g].pc = "done" /\ ~tasks[g].cancelled

\* the step taken last ended the stream of generation g
Ended(g) == "ended" \in DOMAIN lastOp /\ lastOp.ended = g

\* this step skips an object that is not an event
SkipsObject == "skipped" \in DOMAIN lastOp'

\* the ingest closures of generation g waiting in the queue
Pending(g) ==
    Cardinality({i \in 1..Len(queue) :
                    queue[i].kind = "event" /\ queue[i].generation = g})

\* while generation g is current no error closure of its task is queued,
\* there is no later subscription, and no more than n lines are in the log
Silent(g, n) ==
    watchGeneration = g =>
        /\ \A i \in 1..Len(queue) :
              ~(queue[i].kind = "error" /\ queue[i].generation = g)
        /\ \A h \in 1..MaxGeneration : h > g => tasks[h].pc = "none"
        /\ Len(allEvents) <= n

LogSizes == 0..MaxInputs

\* the step reports nothing to the update loop and starts nothing
ReportsNothing == UNCHANGED <<viewState, queue, allOrigin>>

\* once the stream of the current generation has ended, the log gets at
\* most the events handed over before
QuietAfterEnd ==
    \A g \in 1..MaxGeneration : \A n \in LogSizes :
        [](Ended(g) /\ watchGeneration = g /\ Len(allEvents) + Pending(g) = n
              => []Silent(g, n))

\* the places in what the stream of generation g delivered that hold an
\* object that is not an event
SkippedAt(g) == {k \in 1..Len(delivered[g]) : delivered[g][k] = NotAnEvent}

\* the events among the first k objects the stream of generation g delivered
EventsUpTo(g, k) == Cardinality({i \in 1..k : delivered[g][i] # NotAnEvent})

\* the log of the current generation holds no event delivered after an
\* object that is not an event
QuietAfterSkip ==
    SkippedAt(watchGeneration) # {} =>
        Len(allEvents) <= EventsUpTo(watchGeneration, SetMin(SkippedAt(watchGeneration)))

\* C36 as claimed: after the end of the current stream and after an object
\* that is not an event alike, no error is reported, no subscription
\* started, and the log receives no further events until the next setScope
C36_SilentEnd_Claimed ==
    /\ [][(\E g \in 1..MaxGeneration : EndsStream(g)) \/ SkipsObject
             => ReportsNothing]_vars
    /\ QuietAfterEnd
    /\ []QuietAfterSkip

\* C36: the end of the current stream without cancellation reports no error
\* and starts no subscription, and from then on the log receives only the
\* events handed over before, until the next setScope; an object that is
\* not an event is skipped without a report, and the task goes on receiving
C36_SilentEnd ==
    /\ [][\A g \in 1..MaxGeneration :
             EndsStream(g) =>
                 /\ ReportsNothing
                 /\ \A h \in 1..MaxGeneration : h # g => tasks'[h] = tasks[h]]_vars
    /\ [][SkipsObject => ReportsNothing /\ tasks' = tasks]_vars
    /\ QuietAfterEnd

\* the current stream delivered an event, which was ingested, and ended
C36_Witness ==
    /\ Ended(1)
    /\ watchGeneration = 1
    /\ ~tasks[1].cancelled /\ tasks[1].pc = "done"
    /\ allEvents # <<>>
    /\ queue = <<>>
    /\ tableTitle.banner = <<>>

\* ---- toggling twice, refreshing twice (Spec) ----
\* this step and the step before it are the same toggle
SecondToggle(op) == lastOp.op = op /\ lastOp'.op = op

\* the view is what it was before the first of the two toggles
ViewRestored == <<visibleEvents', rowToVisibleEvent'>> = lastOp.before

\* the step taken last ended in refreshTable()
JustRefreshed ==
    lastOp.op \in {"toggleAggregate", "toggleWrap", "toggleColumn", "setFilter",
                   "filterEnter", "updateNamespace"}

\* refreshTable() called once more
RefreshedAgain ==
    refreshTable(allEvents, aggregateMode, filterText, currentColumns, wrapMessages,
                 tableWidth)

HeaderHasNamespace == \E c \in 1..Len(tableRows[1]) : tableRows[1][c] = "NAMESPACE"

\* every data row has as many cells as the header
RowsMatchHeader ==
    \A r \in 2..Len(tableRows) : Len(tableRows[r]) = Len(tableRows[1])

\* C38: the namespace column is enabled, and shown in the table, exactly
\* when the scope is all namespaces; the flag changes only in a scope
\* change, never by a toggle
C38_NamespaceColumn ==
    /\ [](/\ columns.Namespace <=> (namespace = NamespaceAll)
          /\ HeaderHasNamespace <=> (namespace = NamespaceAll)
          /\ RowsMatchHeader)
    /\ [][columns'.Namespace # columns.Namespace =>
             watchGeneration' = watchGeneration + 1]_vars

\* the scope went from a namespace to all namespaces and an event is shown:
\* the column is back
C38_Witness ==
    /\ namespace = NamespaceAll
    /\ recentNamespaces # <<>>
    /\ watchGeneration = 2
    /\ columns.Namespace /\ HeaderHasNamespace
    /\ Len(tableRows) = 2
    /\ Len(tableRows[2]) = 6

\* ---- confirming a result of the ranking (ModalSpec) ----
\* the input without the white space around it
TrimmedInput == TrimSpace(cmText)

HasSpace(text) == \E i \in 1..Len(text) : text[i] = " "

\* the argument the claim gives the confirmed command
ClaimedArg(command) ==
    IF command.AcceptsArg /\ TrimmedInput # <<>> /\ ~HasSpace(TrimmedInput)
    THEN TrimmedInput ELSE <<>>

\* the result under the selection
Confirmed == cmResults[cmSelection + 1]

\* C39: Enter on an input whose first token names no command: with no
\* results the palette only closes; a confirmed command is run, not as a
\* direct dispatch, with the trimmed input as its argument if it accepts
\* one and the input is a single word, with an empty argument otherwise; a
\* confirmed row is jumped to and no command runs
C39_ConfirmResult ==
    [][Confirms /\ Named(cmText) = {} =>
          IF cmResults = <<>> THEN cmDone' = ClosedOnly
          ELSE IF Confirmed.Command # 0
          THEN /\ cmDone'.kind = "command"
               /\ ~cmDone'.direct
               /\ cmDone'.Command = Confirmed.Command
               /\ cmDone'.arg = ClaimedArg(RegisteredCommands[Confirmed.Command])
          ELSE /\ cmDone'.kind = "jump"
               /\ cmDone'.Command = 0
               /\ cmDone'.Row = cmJumps[Confirmed.Jump].Row]_vars

\* "nJ" confirmed on the command jump, which accepts an argument: the
\* command was run with "nJ"
C39_Witness ==
    /\ ~cmOpen
    /\ cmText = <<"n", "J">>
    /\ cmSelection = 0
    /\ cmDone = RanCommand(5, <<"n", "J">>, FALSE)
    /\ RegisteredCommands[5].AcceptsArg

====
